---- MODULE Spec2Model ----
(***************************************************************************)
(* Model of the sao-parks client: the Map component (interaction modes,    *)
(* filter state, layer rendering and its Svelte effects) together with the *)
(* page component that owns the entity store and the creation forms.       *)
(*                                                                         *)
(* Svelte runs the effects of a component in a microtask after the event   *)
(* handler that wrote reactive state has returned, and before the next     *)
(* event is dispatched.  A handler is one action; the effect flush that    *)
(* follows it is the action FlushEffects, which every handler waits for    *)
(* (guard Settled).                                                        *)
(***************************************************************************)
EXTENDS Integers, Sequences, FiniteSets, TLC

\* ---------------------------------------------------------------- bounds
MaxDistricts == 1
MaxParks == 2
MaxFacilities == 1
MaxGeom == 1
MaxTypesUsed == 2
MaxHandlers == 2
MaxDrawn == 1
MaxInflight == 2
MaxStale == 1
MaxFormRows == 1
MaxTokens == 2
MaxPending == 2
MaxPoints == 2
MaxFormParks == 2
MaxRing == 2
MaxCoordinate == 1

\* null / undefined / 0: every value the code tests as falsy
NULL == 0

FACILITY_TYPES ==
  <<"SPORTS_PLAYGROUND", "CHILD_PLAYGROUND", "NTO", "TOILET", "CHILL", "CHILDREN_ROOM">>

FacilityTypeKeys == {FACILITY_TYPES[i] : i \in 1..Len(FACILITY_TYPES)}

TypeIndex(t) == CHOOSE i \in 1..Len(FACILITY_TYPES) : FACILITY_TYPES[i] = t

DistrictIds == 1..MaxDistricts
ParkIds == 1..MaxParks
FacilityIds == 1..MaxFacilities
Geoms == 1..MaxGeom
UsedTypes == {FACILITY_TYPES[i] : i \in 1..MaxTypesUsed}

\* ---------------------------------------------------------------- state
VARIABLES
  districts, parks, facilities,       \* page: the entity store (arrays)
  isAuthenticated,                    \* page: passed to Map as isAdmin
  districtForm, parkForm, facilityForm, \* page: show*Form, new*Geometry, editing*
  serial,                             \* server: last id handed out per table
  drawControl,                        \* Map: "undefined" or "added"
  activeDrawHandler,                  \* Map: "null" or "handler"
  enabledHandlers,                    \* number of enabled L.Draw.Polygon made by start*
  toolbarEnabled,                     \* the draw toolbar's own polygon handler
  clickListeners,                     \* number of 'click' listeners on the map
  isDrawingDistrict, isDrawingPark, isPlacingFacility,
  selectedDistricts, selectedParks, selectedFacilityTypes, filtersInitialized,
  districtLayer, drawnItems, markerClusterGroup, \* Map: rendered layers
  deps, dirty,                        \* Svelte: signals read per effect, effects to run
  lastOp, emitted,                    \* history: last handler, creation callbacks of the last step
  roundTrip,                          \* history: what two successive toggles started from
  formState,                          \* per form component: loading, error, fields
  requests,                           \* submit requests sent and not yet answered
  io,                                 \* history: dialogs and requests of the last handler
  resurrect,                          \* history: progress through deselect-then-select-all
  deselected,                         \* history: what the user toggled off last, and the store since
  mount,                              \* page: position of onMount
  db,                                 \* server: the rows of each table
  loaded,                             \* history: how each load of onMount ended
  cookies,                            \* per requester: value of its admin_session cookie
  issued,                             \* history: tokens that createSession has set
  setCookie,                          \* history: the cookie createSession set last
  pending,                            \* server: accepted requests awaiting the database
  answer,                             \* history: the last response the server sent
  facilityFields,                     \* a facility form on its own: props and state
  saving                              \* one geometry on its way: form text, request, column, list

storeVars == <<districts, parks, facilities>>
pageVars == <<isAuthenticated, districtForm, parkForm, facilityForm, serial>>
modeVars == <<drawControl, activeDrawHandler, enabledHandlers, toolbarEnabled,
              clickListeners, isDrawingDistrict, isDrawingPark, isPlacingFacility>>
filterVars == <<selectedDistricts, selectedParks, selectedFacilityTypes, filtersInitialized>>
layerVars == <<districtLayer, drawnItems, markerClusterGroup>>
formVars == <<formState, requests>>
historyVars == <<lastOp, emitted, roundTrip, io, resurrect, deselected>>
loadVars == <<mount, db, loaded>>
serverVars == <<cookies, issued, setCookie, pending, answer>>
sideVars == <<loadVars, serverVars, facilityFields, saving>>
vars == <<storeVars, pageVars, modeVars, filterVars, layerVars, deps, dirty, formVars,
          historyVars, sideVars>>

\* ---------------------------------------------------------------- helpers
Ids(list) == {list[i].id : i \in 1..Len(list)}

Range(s) == {s[i] : i \in 1..Len(s)}

\* Array.prototype.find: the first element with the id (Found says whether
\* there is one)
Found(list, id) == id \in Ids(list)

Find(list, id) ==
  list[CHOOSE i \in 1..Len(list) :
         list[i].id = id /\ \A j \in 1..(i - 1) : list[j].id # id]

\* ---------------------------------------------------------------- signals
\* A signal is <<name, key>>.  A SvelteSet held in a $state variable has a
\* signal for the variable (key -1), a version signal (key 0) and one
\* source per member (key = the member).
SetVar(name) == <<name, -1>>
SetVersion(name) == <<name, 0>>
Sig(name) == <<name, 0>>

\* SvelteSet.has(k): reads the member's source, or the version if absent
HasReads(name, present, k) ==
  {SetVar(name), IF present THEN <<name, k>> ELSE SetVersion(name)}

\* SvelteSet.delete(k) of a member / SvelteSet.add(k) of a non-member
DeleteWrites(name, present, k) ==
  IF present THEN {<<name, k>>, SetVersion(name)} ELSE {}

AddWrites(name, present) ==
  IF present THEN {} ELSE {SetVersion(name)}

Effects == {"autoSelect", "renderDistricts", "renderParks", "renderFacilities"}

Affected(W) == {e \in Effects : deps[e] \cap W # {}}

Settled == dirty = {}

\* the modal of a form is in the page
DistrictFormOpen == districtForm.show /\ districtForm.geometry # NULL
ParkFormOpen == parkForm.show /\ parkForm.geometry # NULL
FacilityFormOpen == facilityForm.show

\* An open modal is a fixed full-viewport overlay above the map, its
\* controls, the filter panel and the header: nothing below it can be
\* clicked.  Ready is the guard of every handler reached through those.
Ready ==
  /\ Settled
  /\ ~DistrictFormOpen
  /\ ~ParkFormOpen
  /\ ~FacilityFormOpen

\* the interaction mode the three flags encode
Mode ==
  IF isDrawingDistrict THEN "district"
  ELSE IF isDrawingPark THEN "park"
  ELSE IF isPlacingFacility THEN "facility"
  ELSE "idle"

\* history record of a handler call: its name, its argument, the mode it ran in
Op(op, arg) == [op |-> op, arg |-> arg, from |-> Mode]

\* ---------------------------------------------------------------- rendering
\* A rendered layer is the sequence of its elements in the order they were
\* added.  An element carries the id of the entity it draws (NULL for the
\* polygon left by a completed draw), whether a popup is bound to it and
\* whether that popup has the admin edit/delete buttons.
\* Element whose popup is bound in every mode
ElementAlwaysWithPopup(id, placing, admin) ==
  [id |-> id, popup |-> TRUE, buttons |-> admin]

Element(id, placing, admin) ==
  [id |-> id, popup |-> ~placing, buttons |-> (~placing /\ admin)]

DrawnLayer == [id |-> NULL, popup |-> FALSE, buttons |-> FALSE]

Render(list, placing, admin) ==
  [i \in 1..Len(list) |-> Element(list[i].id, placing, admin)]

DistrictShown(district, selD) ==
  /\ district.id \in selD
  /\ district.geometry # NULL

loadDistricts(ds, selD, placing, admin) ==
  Render(SelectSeq(ds, LAMBDA d : DistrictShown(d, selD)), placing, admin)

\* ParkPasses without the district check
ParkPassesIgnoringDistrict(park, selP, selD) == park.id \in selP

ParkPasses(park, selP, selD) ==
  /\ park.id \in selP
  /\ ~(park.districtId # NULL /\ park.districtId \notin selD)

ParkShown(park, selP, selD) ==
  /\ ParkPasses(park, selP, selD)
  /\ park.geometry # NULL

\* loadParks adds to drawnItems; it does not clear it
loadParks(layer, ps, selP, selD, placing, admin) ==
  layer \o Render(SelectSeq(ps, LAMBDA p : ParkShown(p, selP, selD)), placing, admin)

\* FacilityShown without the check of the park's district
FacilityShownIgnoringDistrict(facility, ps, selT, selP, selD) ==
  /\ facility.type \in selT
  /\ ~(facility.parkId # NULL /\ facility.parkId \notin selP)

FacilityShown(facility, ps, selT, selP, selD) ==
  /\ facility.type \in selT
  /\ ~(facility.parkId # NULL /\ facility.parkId \notin selP)
  /\ ~(/\ Found(ps, facility.parkId)
       /\ Find(ps, facility.parkId).districtId # NULL
       /\ Find(ps, facility.parkId).districtId \notin selD)

loadFacilities(fs, ps, selT, selP, selD, placing, admin) ==
  Render(SelectSeq(fs, LAMBDA f : FacilityShown(f, ps, selT, selP, selD)), placing, admin)

\* The signals each render effect reads, given the state it runs in
PopupReads(placing, others) ==
  {Sig("isPlacingFacility")} \cup (IF placing THEN {} ELSE others \cup {Sig("isAdmin")})

loadDistrictsReads(ds, selD, placing) ==
  {Sig("districts")} \cup
  UNION { HasReads("selectedDistricts", ds[i].id \in selD, ds[i].id) \cup
          (IF DistrictShown(ds[i], selD)
           THEN PopupReads(placing, {Sig("parks")}) ELSE {}) : i \in 1..Len(ds) }

loadParksReads(ps, selP, selD, placing) ==
  {Sig("parks")} \cup
  UNION { HasReads("selectedParks", ps[i].id \in selP, ps[i].id) \cup
          (IF ps[i].id \in selP /\ ps[i].districtId # NULL
           THEN HasReads("selectedDistricts", ps[i].districtId \in selD, ps[i].districtId) ELSE {}) \cup
          (IF ParkShown(ps[i], selP, selD)
           THEN PopupReads(placing, {Sig("districts"), Sig("facilities")}) ELSE {})
          : i \in 1..Len(ps) }

FacilityReads(f, ps, selT, selP, selD, placing) ==
  LET typeOk == f.type \in selT
      parkOk == typeOk /\ ~(f.parkId # NULL /\ f.parkId \notin selP)
      hasDistrict == /\ parkOk
                     /\ Found(ps, f.parkId)
                     /\ Find(ps, f.parkId).districtId # NULL
  IN HasReads("selectedFacilityTypes", typeOk, TypeIndex(f.type)) \cup
     (IF typeOk /\ f.parkId # NULL
      THEN HasReads("selectedParks", f.parkId \in selP, f.parkId) ELSE {}) \cup
     (IF parkOk THEN {Sig("parks")} ELSE {}) \cup
     (IF hasDistrict
      THEN HasReads("selectedDistricts", Find(ps, f.parkId).districtId \in selD,
                    Find(ps, f.parkId).districtId)
      ELSE {}) \cup
     (IF FacilityShown(f, ps, selT, selP, selD)
      THEN PopupReads(placing, {Sig("parks")}) ELSE {})

loadFacilitiesReads(fs, ps, selT, selP, selD, placing) ==
  {Sig("facilities")} \cup
  UNION { FacilityReads(fs[i], ps, selT, selP, selD, placing) : i \in 1..Len(fs) }

\* ---------------------------------------------------------------- auto-select effect
Selection(selD, selP, selT) == [selD |-> selD, selP |-> selP, selT |-> selT]

\* autoSelect that selects on its first run only
autoSelectOnFirstRunOnly(initialized, ds, ps, sel) ==
  IF ~initialized THEN Selection(Ids(ds), Ids(ps), FacilityTypeKeys) ELSE sel

\* autoSelect whose first run selects no park
autoSelectWithoutParks(initialized, ds, ps, sel) ==
  IF ~initialized
  THEN Selection(Ids(ds), {}, FacilityTypeKeys)
  ELSE Selection(sel.selD \cup Ids(ds), sel.selP, sel.selT \cup FacilityTypeKeys)

\* the effect's result: first run, and every later run
autoSelect(initialized, ds, ps, sel) ==
  IF ~initialized
  THEN Selection(Ids(ds), Ids(ps), FacilityTypeKeys)
  ELSE Selection(sel.selD \cup Ids(ds), sel.selP \cup Ids(ps),
                 sel.selT \cup FacilityTypeKeys)

autoSelectWrites(initialized, ds, ps, sel) ==
  IF ~initialized
  THEN {SetVar("selectedDistricts"), SetVar("selectedParks"),
        SetVar("selectedFacilityTypes"), Sig("filtersInitialized")}
  ELSE AddWrites("selectedDistricts", Ids(ds) \subseteq sel.selD) \cup
       AddWrites("selectedParks", Ids(ps) \subseteq sel.selP) \cup
       AddWrites("selectedFacilityTypes", FacilityTypeKeys \subseteq sel.selT)

\* what the effect has read once it has run to quiescence: every id it
\* looked up is a member by then
autoSelectReads(ds, ps) ==
  {Sig("filtersInitialized"), Sig("districts"), Sig("parks"),
   SetVar("selectedFacilityTypes")} \cup
  (IF ds = <<>> THEN {} ELSE {SetVar("selectedDistricts")}) \cup
  (IF ps = <<>> THEN {} ELSE {SetVar("selectedParks")}) \cup
  {<<"selectedDistricts", id>> : id \in Ids(ds)} \cup
  {<<"selectedParks", id>> : id \in Ids(ps)} \cup
  {<<"selectedFacilityTypes", i>> : i \in 1..Len(FACILITY_TYPES)}

\* ---------------------------------------------------------------- effect flush
FlushEffects ==
  /\ dirty # {}
  /\ LET runAuto == "autoSelect" \in dirty
         old == Selection(selectedDistricts, selectedParks, selectedFacilityTypes)
         sel == IF runAuto THEN autoSelect(filtersInitialized, districts, parks, old)
                ELSE old
         W == IF runAuto THEN autoSelectWrites(filtersInitialized, districts, parks, old)
              ELSE {}
         run == dirty \cup Affected(W)
         placing == isPlacingFacility
         admin == isAuthenticated
     IN /\ selectedDistricts' = sel.selD
        /\ selectedParks' = sel.selP
        /\ selectedFacilityTypes' = sel.selT
        /\ filtersInitialized' = (filtersInitialized \/ runAuto)
        /\ districtLayer' =
             IF "renderDistricts" \in run
             THEN loadDistricts(districts, sel.selD, placing, admin)
             ELSE districtLayer
        /\ drawnItems' =
             IF "renderParks" \in run
             THEN loadParks(<<>>, parks, sel.selP, sel.selD, placing, admin)
             ELSE drawnItems
        /\ markerClusterGroup' =
             IF "renderFacilities" \in run
             THEN loadFacilities(facilities, parks, sel.selT, sel.selP, sel.selD,
                                 placing, admin)
             ELSE markerClusterGroup
        /\ deps' = [e \in Effects |->
             IF e \notin run THEN deps[e]
             ELSE IF e = "autoSelect" THEN autoSelectReads(districts, parks)
             ELSE IF e = "renderDistricts"
               THEN loadDistrictsReads(districts, sel.selD, placing)
             ELSE IF e = "renderParks"
               THEN loadParksReads(parks, sel.selP, sel.selD, placing)
             ELSE loadFacilitiesReads(facilities, parks, sel.selT, sel.selP,
                                      sel.selD, placing)]
  /\ dirty' = {}
  /\ emitted' = <<>>
  /\ io' = <<>>
  /\ UNCHANGED <<storeVars, pageVars, modeVars, formVars, lastOp, roundTrip, resurrect, deselected,
                 sideVars>>

\* ---------------------------------------------------------------- history of toggles
\* the entity ids a layer shows
Rendered(layer) == Ids(layer) \ {NULL}

RenderedSets ==
  <<Rendered(districtLayer), Rendered(drawnItems), Rendered(markerClusterGroup)>>

SelectedSets == <<selectedDistricts, selectedParks, selectedFacilityTypes>>

NoTrip ==
  [phase |-> 0, op |-> "none", arg |-> NULL,
   selected |-> <<{}, {}, {}>>, rendered |-> <<{}, {}, {}>>]

\* A toggle that switches a selected item off starts a round trip (phase
\* 1) and records what it started from; the next handler call, if it is the
\* same toggle of the same item, completes it (phase 2).
TripAfter(op, arg, off) ==
  IF roundTrip.phase = 1 /\ roundTrip.op = op /\ roundTrip.arg = arg
  THEN [roundTrip EXCEPT !.phase = 2]
  ELSE IF off
  THEN [phase |-> 1, op |-> op, arg |-> arg,
        selected |-> SelectedSets, rendered |-> RenderedSets]
  ELSE NoTrip

NoScenario == [stage |-> 0, park |-> NULL, district |-> NULL]

\* Progress through the sequence: a selected park of a stored district is
\* toggled off (1), its district is toggled off (2), deselectAllParks (3),
\* selectAllDistricts (4). Any other handler call starts over.
ResurrectAfter(op, arg) ==
  IF resurrect.stage = 1 /\ op = "toggleDistrict" /\ arg = resurrect.district
     /\ arg \in selectedDistricts
  THEN [resurrect EXCEPT !.stage = 2]
  ELSE IF resurrect.stage = 2 /\ op = "deselectAllParks"
  THEN [resurrect EXCEPT !.stage = 3]
  ELSE IF resurrect.stage = 3 /\ op = "selectAllDistricts"
  THEN [resurrect EXCEPT !.stage = 4]
  ELSE IF op = "togglePark" /\ arg \in selectedParks /\ Found(parks, arg)
          /\ Find(parks, arg).districtId \in Ids(districts)
  THEN [stage |-> 1, park |-> arg, district |-> Find(parks, arg).districtId]
  ELSE NoScenario

NothingDeselected == [dim |-> "none", key |-> NULL, changed |-> FALSE]

\* The item the user has switched off with its checkbox: recorded by the
\* toggle that removes a stored district, a listed park or a facility type
\* from its set; changed is set by the handler called next if that one changes
\* the store.  Any other handler call starts over.
DeselectedAfter(op, arg) ==
  IF op = "toggleDistrict" /\ arg \in selectedDistricts
  THEN [dim |-> "district", key |-> arg, changed |-> FALSE]
  ELSE IF op = "togglePark" /\ arg \in selectedParks
  THEN [dim |-> "park", key |-> arg, changed |-> FALSE]
  ELSE IF op = "toggleFacilityType" /\ FACILITY_TYPES[arg] \in selectedFacilityTypes
  THEN [dim |-> "type", key |-> arg, changed |-> FALSE]
  ELSE NothingDeselected

StoreWritten(W) == W \cap {Sig("districts"), Sig("parks"), Sig("facilities")} # {}

AfterStoreChange(written) ==
  IF written /\ deselected.dim # "none" /\ ~deselected.changed
  THEN [deselected EXCEPT !.changed = TRUE]
  ELSE NothingDeselected

\* ---------------------------------------------------------------- forms and dialogs
FormKinds == {"district", "park", "facility"}

\* a form component just created: let loading = $state(false), error =
\* $state(''), and name, editableGeometry and districtId as constructed from
\* the props ("initial"; the select's own value is read once it is set)
FreshForm == [loading |-> FALSE, error |-> "none", name |-> "initial",
              text |-> "initial", districtId |-> [set |-> FALSE, id |-> NULL]]

\* The requests a destroyed form component has sent stay in flight; live
\* says whether the component that sent the request still exists.
Detached(kind) ==
  [i \in 1..Len(requests) |->
     IF requests[i].kind = kind THEN [requests[i] EXCEPT !.live = FALSE]
     ELSE requests[i]]

\* DeleteIO without the alert of a failed request
DeleteIOWithoutAlert(confirmed, ok) ==
  IF ~confirmed THEN <<"confirm">> ELSE <<"confirm", "request">>

\* what a delete handler shows and sends: confirm(), fetch, alert()
DeleteIO(confirmed, ok) ==
  IF ~confirmed THEN <<"confirm">>
  ELSE IF ok THEN <<"confirm", "request">>
  ELSE <<"confirm", "request", "alert">>

\* ---------------------------------------------------------------- initial state
Asc(I) == CHOOSE s \in [1..Cardinality(I) -> I] :
            \A i, j \in 1..Cardinality(I) : i < j => s[i] < s[j]

MaxOf(I) == IF I = {} THEN 0 ELSE CHOOSE m \in I : \A n \in I : n <= m

\* the lists a load can return: rows in id order, foreign keys satisfied
LoadedDistricts ==
  UNION { { [i \in 1..Cardinality(I) |->
               [id |-> Asc(I)[i], geometry |-> g[Asc(I)[i]]]]
            : g \in [I -> Geoms \cup {NULL}] }
          : I \in SUBSET DistrictIds }

LoadedParks(ds) ==
  UNION { { [i \in 1..Cardinality(I) |->
               [id |-> Asc(I)[i], districtId |-> d[Asc(I)[i]],
                geometry |-> g[Asc(I)[i]]]]
            : d \in [I -> Ids(ds) \cup {NULL}], g \in [I -> Geoms \cup {NULL}] }
          : I \in SUBSET ParkIds }

LoadedFacilities(ps) ==
  UNION { { [i \in 1..Cardinality(I) |->
               [id |-> Asc(I)[i], type |-> t[Asc(I)[i]], parkId |-> k[Asc(I)[i]],
                position |-> q[Asc(I)[i]]]]
            : t \in [I -> UsedTypes], k \in [I -> Ids(ps) \cup {NULL}],
              q \in [I -> Geoms] }
          : I \in SUBSET FacilityIds }

ClosedForm == [show |-> FALSE, geometry |-> NULL, editing |-> NULL]

Tables == {"districts", "parks", "facilities"}

\* The browsers that talk to the server ("a" is the one showing the page), a
\* cookie value that no createSession has set, and the answer before any
\* request.
Requesters == {"a", "b"}
Forged == MaxTokens + 1
NoFacilityForm == [parks |-> <<>>, point |-> 1, parkId |-> NULL, name |-> "empty",
                   error |-> "none", loading |-> FALSE, dirty |-> FALSE,
                   touched |-> FALSE, sent |-> NULL]
NotSaving == [stage |-> "none", submitted |-> <<>>, text |-> <<>>, listed |-> <<>>]
\* no cookie set yet (value 0 is no token)
NoCookie ==
  [name |-> "none", value |-> 0, path |-> "none", httpOnly |-> FALSE, secure |-> FALSE,
   sameSite |-> "none"]
NoAnswer == [to |-> "none", status |-> 0, method |-> "none", id |-> NULL,
             geometry |-> NULL, raced |-> FALSE]

\* the page after onMount, with the Map just mounted
PageMounted ==
  /\ districts \in LoadedDistricts
  /\ parks \in LoadedParks(districts)
  /\ facilities \in LoadedFacilities(parks)
  /\ isAuthenticated \in BOOLEAN
  /\ districtForm = ClosedForm
  /\ parkForm = ClosedForm
  /\ facilityForm = ClosedForm
  /\ serial = [districts |-> MaxOf(Ids(districts)), parks |-> MaxOf(Ids(parks)),
               facilities |-> MaxOf(Ids(facilities))]
  /\ drawControl = IF isAuthenticated THEN "added" ELSE "undefined"
  /\ activeDrawHandler = "null"
  /\ enabledHandlers = 0
  /\ toolbarEnabled = FALSE
  /\ clickListeners = 0
  /\ isDrawingDistrict = FALSE
  /\ isDrawingPark = FALSE
  /\ isPlacingFacility = FALSE
  /\ selectedDistricts = {}
  /\ selectedParks = {}
  /\ selectedFacilityTypes = {}
  /\ filtersInitialized = FALSE
  /\ districtLayer = <<>>
  /\ drawnItems = <<>>
  /\ markerClusterGroup = <<>>
  /\ deps = [e \in Effects |-> {}]
  /\ dirty = Effects
  /\ lastOp = Op("mount", NULL)
  /\ emitted = <<>>
  /\ roundTrip = NoTrip
  /\ formState = [k \in FormKinds |-> FreshForm]
  /\ requests = <<>>
  /\ io = <<>>
  /\ resurrect = NoScenario
  /\ deselected = NothingDeselected
  /\ mount = "mounted"
  /\ loaded = [t \in Tables |-> "rows"]
  \* the page's handlers see the server through the outcome of each request
  \* only; its tables, cookies and requests are followed in SpecServer
  /\ db = [t \in Tables |-> <<>>]
  /\ cookies = [r \in Requesters |-> NULL]
  /\ issued = {}
  /\ setCookie = NoCookie
  /\ pending = <<>>
  /\ answer = NoAnswer

Init ==
  /\ PageMounted
  /\ facilityFields = NoFacilityForm
  /\ saving = NotSaving

\* ---------------------------------------------------------------- filter handlers
\* A filter handler of the Map component: it writes the selected sets only.
FilterStep(op, arg, selD, selP, selT, W, trip) ==
  /\ Ready
  /\ filtersInitialized
  /\ selectedDistricts' = selD
  /\ selectedParks' = selP
  /\ selectedFacilityTypes' = selT
  /\ dirty' = Affected(W)
  /\ lastOp' = Op(op, arg)
  /\ emitted' = <<>>
  /\ roundTrip' = trip
  /\ io' = <<>>
  /\ resurrect' = ResurrectAfter(op, arg)
  /\ deselected' = DeselectedAfter(op, arg)
  /\ UNCHANGED sideVars
  /\ UNCHANGED formVars
  /\ UNCHANGED <<storeVars, pageVars, modeVars, filtersInitialized, layerVars, deps>>

\* a toggle whose delete empties the set
ToggleClearing(set, k) == IF k \in set THEN {} ELSE set \cup {k}

Toggle(set, k) == IF k \in set THEN set \ {k} ELSE set \cup {k}

ToggleWrites(name, present, k) ==
  IF present THEN DeleteWrites(name, TRUE, k) ELSE AddWrites(name, FALSE)

\* the parks the filter panel lists
filteredParks ==
  SelectSeq(parks, LAMBDA park :
    park.districtId = NULL \/ park.districtId \in selectedDistricts)

toggleDistrict(id) ==
  /\ id \in Ids(districts)
  /\ FilterStep("toggleDistrict", id,
                Toggle(selectedDistricts, id), selectedParks, selectedFacilityTypes,
                ToggleWrites("selectedDistricts", id \in selectedDistricts, id),
                TripAfter("toggleDistrict", id, id \in selectedDistricts))

togglePark(id) ==
  /\ id \in Ids(filteredParks)
  /\ FilterStep("togglePark", id,
                selectedDistricts, Toggle(selectedParks, id), selectedFacilityTypes,
                ToggleWrites("selectedParks", id \in selectedParks, id),
                TripAfter("togglePark", id, id \in selectedParks))

toggleFacilityType(type) ==
  /\ type \in FacilityTypeKeys
  /\ FilterStep("toggleFacilityType", TypeIndex(type),
                selectedDistricts, selectedParks, Toggle(selectedFacilityTypes, type),
                ToggleWrites("selectedFacilityTypes", type \in selectedFacilityTypes,
                             TypeIndex(type)),
                TripAfter("toggleFacilityType", TypeIndex(type),
                          type \in selectedFacilityTypes))

selectAllDistricts ==
  FilterStep("selectAllDistricts", NULL,
             Ids(districts), selectedParks, selectedFacilityTypes,
             {SetVar("selectedDistricts")}, NoTrip)

\* deselectAllDistricts that also empties the districts list
deselectAllDistrictsDroppingDistricts ==
  /\ Ready
  /\ filtersInitialized
  /\ districts' = <<>>
  /\ selectedDistricts' = {}
  /\ dirty' = Affected({SetVar("selectedDistricts"), Sig("districts")})
  /\ lastOp' = Op("deselectAllDistricts", NULL)
  /\ emitted' = <<>>
  /\ roundTrip' = NoTrip
  /\ io' = <<>>
  /\ resurrect' = NoScenario
  /\ deselected' = NothingDeselected
  /\ UNCHANGED sideVars
  /\ UNCHANGED formVars
  /\ UNCHANGED <<parks, facilities, pageVars, modeVars, selectedParks,
                 selectedFacilityTypes, filtersInitialized, layerVars, deps>>

deselectAllDistricts ==
  FilterStep("deselectAllDistricts", NULL,
             {}, selectedParks, selectedFacilityTypes,
             {SetVar("selectedDistricts")}, NoTrip)

parksToSelect(ps, selD) ==
  SelectSeq(ps, LAMBDA park : park.districtId = NULL \/ park.districtId \in selD)

\* selectAllParks that selects every park of the store
selectAllParksUnscoped ==
  FilterStep("selectAllParks", NULL,
             selectedDistricts, Ids(parks), selectedFacilityTypes,
             {SetVar("selectedParks")}, NoTrip)

selectAllParks ==
  FilterStep("selectAllParks", NULL,
             selectedDistricts, Ids(parksToSelect(parks, selectedDistricts)),
             selectedFacilityTypes,
             {SetVar("selectedParks")}, NoTrip)

parksToKeep(ps, selD) ==
  SelectSeq(ps, LAMBDA park : park.districtId # NULL /\ park.districtId \notin selD)

\* deselectAllParks that keeps no park
deselectAllParksUnscoped ==
  FilterStep("deselectAllParks", NULL,
             selectedDistricts, {}, selectedFacilityTypes,
             {SetVar("selectedParks")}, NoTrip)

deselectAllParks ==
  FilterStep("deselectAllParks", NULL,
             selectedDistricts, Ids(parksToKeep(parks, selectedDistricts)),
             selectedFacilityTypes,
             {SetVar("selectedParks")}, NoTrip)

selectAllFacilityTypes ==
  FilterStep("selectAllFacilityTypes", NULL,
             selectedDistricts, selectedParks, FacilityTypeKeys,
             {SetVar("selectedFacilityTypes")}, NoTrip)

deselectAllFacilityTypes ==
  FilterStep("deselectAllFacilityTypes", NULL,
             selectedDistricts, selectedParks, {},
             {SetVar("selectedFacilityTypes")}, NoTrip)

FilterOps == {"toggleDistrict", "togglePark", "toggleFacilityType",
              "selectAllDistricts", "deselectAllDistricts",
              "selectAllParks", "deselectAllParks",
              "selectAllFacilityTypes", "deselectAllFacilityTypes"}

\* ---------------------------------------------------------------- interaction modes
\* What cancelAllModes leaves behind: the referenced draw handler is
\* disabled and forgotten, every 'click' listener is removed from the map,
\* the three mode flags are false.  A handler that is enabled but no longer
\* referenced by activeDrawHandler is not touched.
HandlersAfterCancel ==
  IF activeDrawHandler = "handler" THEN enabledHandlers - 1 ELSE enabledHandlers

PlacingWrites(after) ==
  IF isPlacingFacility # after THEN {Sig("isPlacingFacility")} ELSE {}

\* a handler of the Map component that changes the mode state only
ModeStep(op, district, park, placing, handler, enabled, listeners) ==
  /\ Ready
  /\ filtersInitialized
  /\ isDrawingDistrict' = district
  /\ isDrawingPark' = park
  /\ isPlacingFacility' = placing
  /\ activeDrawHandler' = handler
  /\ enabledHandlers' = enabled
  /\ clickListeners' = listeners
  /\ dirty' = Affected(PlacingWrites(placing))
  /\ lastOp' = Op(op, NULL)
  /\ roundTrip' = NoTrip
  /\ io' = <<>>
  /\ resurrect' = NoScenario
  /\ deselected' = NothingDeselected
  /\ UNCHANGED sideVars
  /\ UNCHANGED formVars
  /\ emitted' = <<>>
  /\ UNCHANGED <<storeVars, pageVars, drawControl, toolbarEnabled, filterVars,
                 layerVars, deps>>

\* cancelAllModes without map.off('click')
cancelAllModesKeepsListeners ==
  /\ isAuthenticated
  /\ isDrawingDistrict \/ isDrawingPark \/ isPlacingFacility
  /\ ModeStep("cancelAllModes", FALSE, FALSE, FALSE, "null", HandlersAfterCancel,
              clickListeners)

cancelAllModes ==
  /\ isAuthenticated
  /\ isDrawingDistrict \/ isDrawingPark \/ isPlacingFacility
  /\ ModeStep("cancelAllModes", FALSE, FALSE, FALSE, "null", HandlersAfterCancel, 0)

\* startDrawingDistrict whose cleanup leaves the map's 'click' listeners on
startDrawingDistrictKeepsListeners ==
  /\ isAuthenticated
  /\ ~isDrawingDistrict
  /\ HandlersAfterCancel < MaxHandlers
  /\ ModeStep("startDrawingDistrict", TRUE, FALSE, FALSE, "handler",
              HandlersAfterCancel + 1, clickListeners)

startDrawingDistrict ==
  /\ isAuthenticated
  /\ ~isDrawingDistrict
  /\ HandlersAfterCancel < MaxHandlers
  /\ ModeStep("startDrawingDistrict", TRUE, FALSE, FALSE, "handler",
              HandlersAfterCancel + 1, 0)

\* startDrawingPark whose cleanup leaves the map's 'click' listeners on
startDrawingParkKeepsListeners ==
  /\ isAuthenticated
  /\ ~isDrawingPark
  /\ HandlersAfterCancel < MaxHandlers
  /\ ModeStep("startDrawingPark", FALSE, TRUE, FALSE, "handler",
              HandlersAfterCancel + 1, clickListeners)

\* startDrawingPark without its call of cancelAllModes
startDrawingParkWithoutCancel ==
  /\ isAuthenticated
  /\ ~isDrawingPark
  /\ enabledHandlers < MaxHandlers
  /\ ModeStep("startDrawingPark", isDrawingDistrict, TRUE, isPlacingFacility, "handler",
              enabledHandlers + 1, clickListeners)

startDrawingPark ==
  /\ isAuthenticated
  /\ ~isDrawingPark
  /\ HandlersAfterCancel < MaxHandlers
  /\ ModeStep("startDrawingPark", FALSE, TRUE, FALSE, "handler",
              HandlersAfterCancel + 1, 0)

startPlacingFacility ==
  /\ isAuthenticated
  /\ ~isPlacingFacility
  /\ ModeStep("startPlacingFacility", FALSE, FALSE, TRUE, "null",
              HandlersAfterCancel, 1)

\* the polygon button of the draw toolbar that setupDrawControls adds
toolbarEnable ==
  /\ Ready
  /\ filtersInitialized
  /\ drawControl = "added"
  /\ ~toolbarEnabled
  /\ toolbarEnabled' = TRUE
  /\ lastOp' = Op("toolbarEnable", NULL)
  /\ roundTrip' = NoTrip
  /\ io' = <<>>
  /\ resurrect' = NoScenario
  /\ deselected' = NothingDeselected
  /\ UNCHANGED sideVars
  /\ UNCHANGED formVars
  /\ emitted' = <<>>
  /\ UNCHANGED <<storeVars, pageVars, drawControl, activeDrawHandler, enabledHandlers,
                 clickListeners, isDrawingDistrict, isDrawingPark, isPlacingFacility,
                 filterVars, layerVars, deps, dirty>>

toolbarDisable ==
  /\ Ready
  /\ filtersInitialized
  /\ toolbarEnabled
  /\ toolbarEnabled' = FALSE
  /\ lastOp' = Op("toolbarDisable", NULL)
  /\ roundTrip' = NoTrip
  /\ io' = <<>>
  /\ resurrect' = NoScenario
  /\ deselected' = NothingDeselected
  /\ UNCHANGED sideVars
  /\ UNCHANGED formVars
  /\ emitted' = <<>>
  /\ UNCHANGED <<storeVars, pageVars, drawControl, activeDrawHandler, enabledHandlers,
                 clickListeners, isDrawingDistrict, isDrawingPark, isPlacingFacility,
                 filterVars, layerVars, deps, dirty>>

\* the layers of drawnItems that Leaflet.Draw produced (not rendered parks)
Drawn(layer) == Len(SelectSeq(layer, LAMBDA el : el = DrawnLayer))

CreationEvent(kind, geometry) == [kind |-> kind, geometry |-> geometry]

\* page: handleDistrictCreate / handleParkCreate / handleFacilityCreate
handleCreate(form, geometry) ==
  [form EXCEPT !.geometry = geometry, !.show = TRUE]

\* The L.Draw.Event.CREATED listener, run when an enabled polygon handler
\* (the referenced one, an unreferenced one, or the toolbar's) completes a
\* polygon g; the handler that fired disables itself afterwards.
HandlerSources == {"active", "unreferenced", "toolbar"}

CanComplete(src) ==
  IF src = "active" THEN activeDrawHandler = "handler"
  ELSE IF src = "unreferenced" THEN HandlersAfterCancel > 0
  ELSE toolbarEnabled

drawCreated(src, g) ==
  /\ Ready
  /\ filtersInitialized
  /\ drawControl = "added"
  /\ CanComplete(src)
  /\ ~isDrawingDistrict /\ isDrawingPark => Drawn(drawnItems) < MaxDrawn
  /\ isDrawingDistrict' = FALSE
  /\ isDrawingPark' = IF isDrawingDistrict THEN isDrawingPark ELSE FALSE
  /\ activeDrawHandler' =
       IF isDrawingDistrict \/ isDrawingPark THEN "null" ELSE activeDrawHandler
  /\ enabledHandlers' = IF src = "toolbar" THEN enabledHandlers ELSE enabledHandlers - 1
  /\ toolbarEnabled' = IF src = "toolbar" THEN FALSE ELSE toolbarEnabled
  /\ drawnItems' =
       IF ~isDrawingDistrict /\ isDrawingPark
       THEN Append(drawnItems, DrawnLayer) ELSE drawnItems
  /\ districtForm' =
       IF isDrawingDistrict THEN handleCreate(districtForm, g) ELSE districtForm
  /\ parkForm' =
       IF ~isDrawingDistrict /\ isDrawingPark THEN handleCreate(parkForm, g)
       ELSE parkForm
  /\ emitted' =
       IF isDrawingDistrict THEN <<CreationEvent("district", g)>>
       ELSE IF isDrawingPark THEN <<CreationEvent("park", g)>>
       ELSE <<>>
  /\ lastOp' = Op("drawCreated", g)
  /\ roundTrip' = NoTrip
  /\ io' = <<>>
  /\ resurrect' = NoScenario
  /\ deselected' = NothingDeselected
  /\ UNCHANGED sideVars
  /\ UNCHANGED formVars
  /\ UNCHANGED <<storeVars, isAuthenticated, facilityForm, serial, drawControl,
                 clickListeners, isPlacingFacility, filterVars, districtLayer,
                 markerClusterGroup, deps, dirty>>

\* mapClick with the listener registered by map.on instead of map.once
mapClickListenerStays(g) ==
  /\ Ready
  /\ filtersInitialized
  /\ clickListeners' = clickListeners
  /\ isPlacingFacility' = IF clickListeners > 0 THEN FALSE ELSE isPlacingFacility
  /\ activeDrawHandler' = IF clickListeners > 0 THEN "null" ELSE activeDrawHandler
  /\ facilityForm' =
       IF clickListeners > 0 THEN handleCreate(facilityForm, g) ELSE facilityForm
  /\ emitted' = [i \in 1..clickListeners |-> CreationEvent("facility", g)]
  /\ dirty' = Affected(IF clickListeners > 0 THEN PlacingWrites(FALSE) ELSE {})
  /\ lastOp' = Op("mapClick", g)
  /\ roundTrip' = NoTrip
  /\ io' = <<>>
  /\ resurrect' = NoScenario
  /\ deselected' = NothingDeselected
  /\ UNCHANGED sideVars
  /\ UNCHANGED formVars
  /\ UNCHANGED <<storeVars, isAuthenticated, districtForm, parkForm, serial,
                 drawControl, enabledHandlers, toolbarEnabled, isDrawingDistrict,
                 isDrawingPark, filterVars, layerVars, deps>>

\* a 'click' event of the map at point g: every registered one-shot
\* listener runs once and is removed
mapClick(g) ==
  /\ Ready
  /\ filtersInitialized
  /\ clickListeners' = 0
  /\ isPlacingFacility' = IF clickListeners > 0 THEN FALSE ELSE isPlacingFacility
  /\ activeDrawHandler' = IF clickListeners > 0 THEN "null" ELSE activeDrawHandler
  /\ facilityForm' =
       IF clickListeners > 0 THEN handleCreate(facilityForm, g) ELSE facilityForm
  /\ emitted' = [i \in 1..clickListeners |-> CreationEvent("facility", g)]
  /\ dirty' = Affected(IF clickListeners > 0 THEN PlacingWrites(FALSE) ELSE {})
  /\ lastOp' = Op("mapClick", g)
  /\ roundTrip' = NoTrip
  /\ io' = <<>>
  /\ resurrect' = NoScenario
  /\ deselected' = NothingDeselected
  /\ UNCHANGED sideVars
  /\ UNCHANGED formVars
  /\ UNCHANGED <<storeVars, isAuthenticated, districtForm, parkForm, serial,
                 drawControl, enabledHandlers, toolbarEnabled, isDrawingDistrict,
                 isDrawingPark, filterVars, layerVars, deps>>

\* ---------------------------------------------------------------- page handlers
\* A page handler that leaves the Map component's own state alone; W are
\* the props of the Map it has written.
PageStep(op, arg, W) ==
  /\ Settled
  /\ filtersInitialized
  /\ dirty' = Affected(W)
  /\ lastOp' = Op(op, arg)
  /\ roundTrip' = NoTrip
  /\ resurrect' = NoScenario
  /\ deselected' = AfterStoreChange(StoreWritten(W))
  /\ UNCHANGED sideVars
  /\ emitted' = <<>>
  /\ UNCHANGED <<modeVars, filterVars, layerVars, deps>>

\* the popup of the entity's element is bound and has the admin buttons
PopupButtons(layer, id) ==
  \E i \in 1..Len(layer) : layer[i].id = id /\ layer[i].buttons

Without(list, id) == SelectSeq(list, LAMBDA e : e.id # id)

Replace(list, entity) ==
  [i \in 1..Len(list) |-> IF list[i].id = entity.id THEN entity ELSE list[i]]

handleLogout ==
  /\ isAuthenticated
  /\ Ready
  /\ isAuthenticated' = FALSE
  /\ PageStep("handleLogout", NULL, {Sig("isAdmin")})
  /\ io' = <<>>
  /\ UNCHANGED formVars
  /\ UNCHANGED <<storeVars, districtForm, parkForm, facilityForm, serial>>

\* handleDistrictDelete that also drops the parks of the district
handleDistrictDeleteCascading(districtId, confirmed, ok) ==
  /\ Ready
  /\ PopupButtons(districtLayer, districtId)
  /\ districts' = IF confirmed /\ ok THEN Without(districts, districtId) ELSE districts
  /\ parks' = IF confirmed /\ ok
             THEN SelectSeq(parks, LAMBDA p : p.districtId # districtId) ELSE parks
  /\ PageStep("handleDistrictDelete", districtId,
              IF confirmed /\ ok THEN {Sig("districts"), Sig("parks")} ELSE {})
  /\ io' = DeleteIO(confirmed, ok)
  /\ UNCHANGED <<facilities, pageVars, formVars>>

handleDistrictDelete(districtId, confirmed, ok) ==
  /\ Ready
  /\ PopupButtons(districtLayer, districtId)
  /\ districts' = IF confirmed /\ ok THEN Without(districts, districtId) ELSE districts
  /\ PageStep("handleDistrictDelete", districtId,
              IF confirmed /\ ok THEN {Sig("districts")} ELSE {})
  /\ io' = DeleteIO(confirmed, ok)
  /\ UNCHANGED <<parks, facilities, pageVars, formVars>>

\* handleParkDelete that leaves the facilities list alone
handleParkDeleteKeepingFacilities(parkId, confirmed, ok) ==
  /\ Ready
  /\ PopupButtons(drawnItems, parkId)
  /\ parks' = IF confirmed /\ ok THEN Without(parks, parkId) ELSE parks
  /\ PageStep("handleParkDelete", parkId,
              IF confirmed /\ ok THEN {Sig("parks")} ELSE {})
  /\ io' = DeleteIO(confirmed, ok)
  /\ UNCHANGED <<districts, facilities, pageVars, formVars>>

handleParkDelete(parkId, confirmed, ok) ==
  /\ Ready
  /\ PopupButtons(drawnItems, parkId)
  /\ parks' = IF confirmed /\ ok THEN Without(parks, parkId) ELSE parks
  /\ facilities' =
       IF confirmed /\ ok THEN SelectSeq(facilities, LAMBDA f : f.parkId # parkId)
       ELSE facilities
  /\ PageStep("handleParkDelete", parkId,
              IF confirmed /\ ok THEN {Sig("parks"), Sig("facilities")} ELSE {})
  /\ io' = DeleteIO(confirmed, ok)
  /\ UNCHANGED <<districts, pageVars, formVars>>

handleFacilityDelete(facilityId, confirmed, ok) ==
  /\ Ready
  /\ PopupButtons(markerClusterGroup, facilityId)
  /\ facilities' = IF confirmed /\ ok THEN Without(facilities, facilityId) ELSE facilities
  /\ PageStep("handleFacilityDelete", facilityId,
              IF confirmed /\ ok THEN {Sig("facilities")} ELSE {})
  /\ io' = DeleteIO(confirmed, ok)
  /\ UNCHANGED <<districts, parks, pageVars, formVars>>

EditForm(entity, geometry) == [show |-> TRUE, geometry |-> geometry, editing |-> entity.id]

handleDistrictEdit(districtId) ==
  /\ Ready
  /\ PopupButtons(districtLayer, districtId)
  /\ Found(districts, districtId)
  /\ districtForm' = EditForm(Find(districts, districtId),
                              Find(districts, districtId).geometry)
  /\ PageStep("handleDistrictEdit", districtId, {})
  /\ io' = <<>>
  /\ UNCHANGED formVars
  /\ UNCHANGED <<storeVars, isAuthenticated, parkForm, facilityForm, serial>>

handleParkEdit(parkId) ==
  /\ Ready
  /\ PopupButtons(drawnItems, parkId)
  /\ Found(parks, parkId)
  /\ parkForm' = EditForm(Find(parks, parkId), Find(parks, parkId).geometry)
  /\ PageStep("handleParkEdit", parkId, {})
  /\ io' = <<>>
  /\ UNCHANGED formVars
  /\ UNCHANGED <<storeVars, isAuthenticated, districtForm, facilityForm, serial>>

handleFacilityEdit(facilityId) ==
  /\ Ready
  /\ PopupButtons(markerClusterGroup, facilityId)
  /\ Found(facilities, facilityId)
  /\ facilityForm' = EditForm(Find(facilities, facilityId),
                              Find(facilities, facilityId).position)
  /\ PageStep("handleFacilityEdit", facilityId, {})
  /\ io' = <<>>
  /\ UNCHANGED formVars
  /\ UNCHANGED <<storeVars, isAuthenticated, districtForm, parkForm, serial>>

\* handle*Submit(entity): the form got an OK response carrying the row
Submitted(list, form, entity) ==
  IF form.editing # NULL THEN Replace(list, entity) ELSE Append(list, entity)

RowId(form, last) == IF form.editing # NULL THEN form.editing ELSE last + 1

handleDistrictSubmit(geometry) ==
  /\ DistrictFormOpen
  /\ ~formState["district"].loading
  /\ geometry \in {districtForm.geometry, NULL}
  /\ districtForm.editing = NULL => serial.districts < MaxDistricts
  /\ districts' = Submitted(districts, districtForm,
                    [id |-> RowId(districtForm, serial.districts),
                     geometry |-> geometry])
  /\ serial' = IF districtForm.editing # NULL THEN serial
               ELSE [serial EXCEPT !.districts = @ + 1]
  /\ districtForm' = ClosedForm
  /\ PageStep("handleDistrictSubmit", RowId(districtForm, serial.districts),
              {Sig("districts")})
  /\ io' = <<>>
  /\ formState' = [formState EXCEPT !["district"] = FreshForm]
  /\ requests' = Detached("district")
  /\ UNCHANGED <<parks, facilities, isAuthenticated, parkForm, facilityForm>>

handleParkSubmit(geometry, districtId) ==
  /\ ParkFormOpen
  /\ ~formState["park"].loading
  /\ geometry \in {parkForm.geometry, NULL}
  /\ districtId \in Ids(districts)
  /\ parkForm.editing = NULL => serial.parks < MaxParks
  /\ parks' = Submitted(parks, parkForm,
                [id |-> RowId(parkForm, serial.parks), districtId |-> districtId,
                 geometry |-> geometry])
  /\ serial' = IF parkForm.editing # NULL THEN serial
               ELSE [serial EXCEPT !.parks = @ + 1]
  /\ parkForm' = ClosedForm
  /\ PageStep("handleParkSubmit", RowId(parkForm, serial.parks), {Sig("parks")})
  /\ io' = <<>>
  /\ formState' = [formState EXCEPT !["park"] = FreshForm]
  /\ requests' = Detached("park")
  /\ UNCHANGED <<districts, facilities, isAuthenticated, districtForm, facilityForm>>

handleFacilitySubmit(type, parkId) ==
  /\ FacilityFormOpen
  /\ ~formState["facility"].loading
  /\ type \in UsedTypes
  /\ parkId \in Ids(parks)
  /\ facilityForm.editing = NULL => serial.facilities < MaxFacilities
  /\ facilities' = Submitted(facilities, facilityForm,
                     [id |-> RowId(facilityForm, serial.facilities), type |-> type,
                      parkId |-> parkId, position |-> facilityForm.geometry])
  /\ serial' = IF facilityForm.editing # NULL THEN serial
               ELSE [serial EXCEPT !.facilities = @ + 1]
  /\ facilityForm' = [facilityForm EXCEPT !.show = FALSE, !.editing = NULL]
  /\ PageStep("handleFacilitySubmit", RowId(facilityForm, serial.facilities),
              {Sig("facilities")})
  /\ io' = <<>>
  /\ formState' = [formState EXCEPT !["facility"] = FreshForm]
  /\ requests' = Detached("facility")
  /\ UNCHANGED <<districts, parks, isAuthenticated, districtForm, parkForm>>

closeDistrictForm ==
  /\ DistrictFormOpen
  /\ districtForm' = ClosedForm
  /\ PageStep("closeDistrictForm", NULL, {})
  /\ io' = <<>>
  /\ formState' = [formState EXCEPT !["district"] = FreshForm]
  /\ requests' = Detached("district")
  /\ UNCHANGED <<storeVars, isAuthenticated, parkForm, facilityForm, serial>>

closeParkForm ==
  /\ ParkFormOpen
  /\ parkForm' = ClosedForm
  /\ PageStep("closeParkForm", NULL, {})
  /\ io' = <<>>
  /\ formState' = [formState EXCEPT !["park"] = FreshForm]
  /\ requests' = Detached("park")
  /\ UNCHANGED <<storeVars, isAuthenticated, districtForm, facilityForm, serial>>

closeFacilityForm ==
  /\ FacilityFormOpen
  /\ facilityForm' = [facilityForm EXCEPT !.show = FALSE, !.editing = NULL]
  /\ PageStep("closeFacilityForm", NULL, {})
  /\ io' = <<>>
  /\ formState' = [formState EXCEPT !["facility"] = FreshForm]
  /\ requests' = Detached("facility")
  /\ UNCHANGED <<storeVars, isAuthenticated, districtForm, parkForm, serial>>

\* ---------------------------------------------------------------- form components
List(kind) ==
  IF kind = "district" THEN districts ELSE IF kind = "park" THEN parks ELSE facilities

PageForm(kind) ==
  IF kind = "district" THEN districtForm
  ELSE IF kind = "park" THEN parkForm ELSE facilityForm

FormOpen(kind) ==
  IF kind = "district" THEN DistrictFormOpen
  ELSE IF kind = "park" THEN ParkFormOpen ELSE FacilityFormOpen

Table(kind) ==
  IF kind = "district" THEN "districts"
  ELSE IF kind = "park" THEN "parks" ELSE "facilities"

MaxRows(kind) ==
  IF kind = "district" THEN MaxDistricts
  ELSE IF kind = "park" THEN MaxParks ELSE MaxFacilities

ListSignal(kind) == Sig(Table(kind))

\* the body a form can send: its fields other than the id
FormRows(kind) ==
  IF kind = "district"
  THEN {[geometry |-> districtForm.geometry]}
  ELSE IF kind = "park"
  THEN {[districtId |-> d, geometry |-> parkForm.geometry] : d \in Ids(districts)}
  ELSE {[type |-> t, parkId |-> k, position |-> facilityForm.geometry] :
          t \in UsedTypes, k \in Ids(parks)}

NoRow == [geometry |-> NULL]

SubmitOp(kind) ==
  IF kind = "district" THEN "handleDistrictSubmit"
  ELSE IF kind = "park" THEN "handleParkSubmit" ELSE "handleFacilitySubmit"

\* handleSubmit of a form component, reached through its enabled submit
\* button: a validation error, or the request is sent and loading is set
handleSubmit(kind, valid, row) ==
  /\ Settled
  /\ filtersInitialized
  /\ FormOpen(kind)
  /\ ~formState[kind].loading
  /\ valid => Len(requests) < MaxInflight
  /\ formState' = [formState EXCEPT ![kind] =
                     IF valid THEN [loading |-> TRUE, error |-> "none"] @@ @
                     ELSE [loading |-> FALSE, error |-> "validation"] @@ @]
  /\ requests' = IF valid
                 THEN Append(requests, [kind |-> kind, id |-> PageForm(kind).editing,
                                        row |-> row, live |-> TRUE])
                 ELSE requests
  /\ io' = IF valid THEN <<"request">> ELSE <<>>
  /\ lastOp' = Op("handleSubmit", NULL)
  /\ roundTrip' = NoTrip
  /\ resurrect' = NoScenario
  /\ deselected' = NothingDeselected
  /\ UNCHANGED sideVars
  /\ emitted' = <<>>
  /\ UNCHANGED <<storeVars, pageVars, modeVars, filterVars, layerVars, deps, dirty>>

Remove(seq, i) == [j \in 1..(Len(seq) - 1) |-> IF j < i THEN seq[j] ELSE seq[j + 1]]

\* the requests left when request i is answered and the forms of the kind
\* are destroyed (closed) or not
Answered(i, closed) ==
  [j \in 1..(Len(requests) - 1) |->
     LET r == Remove(requests, i)[j]
     IN  IF closed /\ r.kind = requests[i].kind THEN [r EXCEPT !.live = FALSE] ELSE r]

ServerRow(r) ==
  [id |-> IF r.id # NULL THEN r.id ELSE serial[Table(r.kind)] + 1] @@ r.row

ErrorShown == {"server", "generic"}

\* AfterFailure that leaves loading set
AfterFailureStillLoading(error) == [loading |-> TRUE, error |-> error]

\* the component's state after the else / catch branch and finally
AfterFailure(error) == [loading |-> FALSE, error |-> error]

\* The rest of handleSubmit, run when the response to request i arrives:
\* on response.ok the page's handle*Submit gets the row (the page decides
\* from its own editing* whether to replace or append, and closes the form);
\* otherwise the component that sent the request shows the error; finally
\* its loading is reset.  The server has applied an update when the request
\* reached it, so its OK response may arrive after the row was deleted.
responded(i, ok, error) ==
  /\ Settled
  /\ filtersInitialized
  /\ i \in 1..Len(requests)
  /\ LET r == requests[i]
         kind == r.kind
         row == ServerRow(r)
         form == PageForm(kind)
         closed == IF kind = "facility"
                   THEN [form EXCEPT !.show = FALSE, !.editing = NULL]
                   ELSE ClosedForm
     IN  /\ ok => error = "none"
         /\ ~ok => error \in ErrorShown
         /\ (ok /\ r.id = NULL) => serial[Table(kind)] < MaxRows(kind)
         /\ (ok /\ form.editing = NULL) => Len(List(kind)) < MaxRows(kind) + MaxStale
         /\ districts' = IF ok /\ kind = "district"
                         THEN Submitted(districts, form, row) ELSE districts
         /\ parks' = IF ok /\ kind = "park"
                     THEN Submitted(parks, form, row) ELSE parks
         /\ facilities' = IF ok /\ kind = "facility"
                          THEN Submitted(facilities, form, row) ELSE facilities
         /\ serial' = IF ok /\ r.id = NULL
                      THEN [serial EXCEPT ![Table(kind)] = @ + 1] ELSE serial
         /\ districtForm' = IF ok /\ kind = "district" THEN closed ELSE districtForm
         /\ parkForm' = IF ok /\ kind = "park" THEN closed ELSE parkForm
         /\ facilityForm' = IF ok /\ kind = "facility" THEN closed ELSE facilityForm
         /\ formState' =
              IF ok THEN [formState EXCEPT ![kind] = FreshForm]
              ELSE IF r.live
              THEN [formState EXCEPT ![kind] = AfterFailure(error) @@ @]
              ELSE formState
         /\ requests' = Answered(i, ok)
         /\ dirty' = Affected(IF ok THEN {ListSignal(kind)} ELSE {})
         /\ lastOp' = IF ok THEN Op(SubmitOp(kind), row.id) ELSE Op("submitFailed", NULL)
  /\ io' = <<>>
  /\ roundTrip' = NoTrip
  /\ resurrect' = NoScenario
  /\ deselected' = AfterStoreChange(ok)
  /\ UNCHANGED sideVars
  /\ emitted' = <<>>
  /\ UNCHANGED <<isAuthenticated, modeVars, filterVars, layerVars, deps>>

\* ---------------------------------------------------------------- specification
\* the interaction-mode controller and the forms its creation events open
NextModes ==
  \/ FlushEffects
  \/ cancelAllModes
  \/ startDrawingDistrict
  \/ startDrawingPark
  \/ startPlacingFacility
  \/ toolbarEnable
  \/ toolbarDisable
  \/ \E src \in HandlerSources, g \in Geoms : drawCreated(src, g)
  \/ \E g \in Geoms : mapClick(g)
  \/ handleLogout
  \/ closeDistrictForm
  \/ closeParkForm
  \/ closeFacilityForm

\* the filter panel, the popups' edit and delete buttons and the forms
NextFilter ==
  \/ FlushEffects
  \/ \E id \in DistrictIds : toggleDistrict(id)
  \/ \E id \in ParkIds : togglePark(id)
  \/ \E type \in FacilityTypeKeys : toggleFacilityType(type)
  \/ selectAllDistricts
  \/ deselectAllDistricts
  \/ selectAllParks
  \/ deselectAllParks
  \/ selectAllFacilityTypes
  \/ deselectAllFacilityTypes
  \/ \E id \in DistrictIds, c, ok \in BOOLEAN : handleDistrictDelete(id, c, ok)
  \/ \E id \in ParkIds, c, ok \in BOOLEAN : handleParkDelete(id, c, ok)
  \/ \E id \in FacilityIds, c, ok \in BOOLEAN : handleFacilityDelete(id, c, ok)
  \/ \E id \in DistrictIds : handleDistrictEdit(id)
  \/ \E id \in ParkIds : handleParkEdit(id)
  \/ \E id \in FacilityIds : handleFacilityEdit(id)
  \/ \E g \in Geoms \cup {NULL} : handleDistrictSubmit(g)
  \/ \E g \in Geoms \cup {NULL}, d \in DistrictIds : handleParkSubmit(g, d)
  \/ \E t \in UsedTypes, k \in ParkIds : handleFacilitySubmit(t, k)
  \/ closeDistrictForm
  \/ closeParkForm
  \/ closeFacilityForm

\* creation of entities: a start action, the draw or click, the form's
\* submit or cancel; a district may be deleted and the district filter reset
NextCreate ==
  \/ FlushEffects
  \/ \E id \in DistrictIds, c, ok \in BOOLEAN : handleDistrictDelete(id, c, ok)
  \/ selectAllDistricts
  \/ startDrawingDistrict
  \/ startDrawingPark
  \/ startPlacingFacility
  \/ \E src \in HandlerSources, g \in Geoms : drawCreated(src, g)
  \/ \E g \in Geoms : mapClick(g)
  \/ \E g \in Geoms \cup {NULL} : handleDistrictSubmit(g)
  \/ \E g \in Geoms \cup {NULL}, d \in DistrictIds : handleParkSubmit(g, d)
  \/ \E t \in UsedTypes, k \in ParkIds : handleFacilitySubmit(t, k)
  \/ closeDistrictForm
  \/ closeParkForm
  \/ closeFacilityForm

\* the forms: opened by an edit button, submitted, answered by the server,
\* closed; a park may be deleted in between
NextForms ==
  \/ FlushEffects
  \/ \E id \in DistrictIds : handleDistrictEdit(id)
  \/ \E id \in ParkIds : handleParkEdit(id)
  \/ \E id \in FacilityIds : handleFacilityEdit(id)
  \/ \E id \in ParkIds, c, ok \in BOOLEAN : handleParkDelete(id, c, ok)
  \/ \E kind \in FormKinds : handleSubmit(kind, FALSE, NoRow)
  \/ \E kind \in FormKinds : \E row \in FormRows(kind) : handleSubmit(kind, TRUE, row)
  \/ \E i \in 1..MaxInflight, ok \in BOOLEAN, error \in ErrorShown \cup {"none"} :
       responded(i, ok, error)
  \/ closeDistrictForm
  \/ closeParkForm
  \/ closeFacilityForm


SpecModes == Init /\ [][NextModes]_vars

SpecCreate == Init /\ [][NextCreate]_vars

\* the forms are explored from the loads of at most MaxFormRows rows per table
InitForms ==
  /\ Init
  /\ Len(districts) <= MaxFormRows
  /\ Len(parks) <= MaxFormRows
  /\ Len(facilities) <= MaxFormRows

SpecForms == InitForms /\ [][NextForms]_vars

SpecFilter == Init /\ [][NextFilter]_vars
\* ---------------------------------------------------------------- interaction-mode properties
\* C1: in every reachable state at most one of the three interaction modes
\* (drawing-district, drawing-park, placing-facility) is active.
C1_AtMostOneMode ==
  /\ ~(isDrawingDistrict /\ isDrawingPark)
  /\ ~(isDrawingDistrict /\ isPlacingFacility)
  /\ ~(isDrawingPark /\ isPlacingFacility)

\* placing-facility was started while drawing-park was active
C1_SwitchedMode ==
  /\ lastOp.op = "startPlacingFacility"
  /\ lastOp.from = "park"
  /\ isPlacingFacility

StartMode == startDrawingDistrict \/ startDrawingPark \/ startPlacingFacility

\* the handlers and listeners a step that calls cancelAllModes leaves: the
\* referenced draw handler is disabled, the 'click' listeners are gone, and what
\* remains beyond that is what the step attached for the mode it entered
CleanedUp ==
  /\ enabledHandlers' =
       (enabledHandlers - (IF activeDrawHandler = "handler" THEN 1 ELSE 0))
       + (IF activeDrawHandler' = "handler" THEN 1 ELSE 0)
  /\ clickListeners' = (IF isPlacingFacility' THEN 1 ELSE 0)

\* C2: a start action taken while another mode is in progress cancels the
\* in-progress draw or placement and emits no creation event; and a creation
\* event is only ever emitted for the mode that is active when it is emitted,
\* so the abandoned mode emits none at the switch or later.
C2_AbandonedModeEmitsNothing ==
  [][ /\ (StartMode /\ Mode # "idle") => (emitted' = <<>> /\ CleanedUp)
      /\ \A i \in 1..Len(emitted') : emitted'[i].kind = Mode ]_vars

\* drawing-park was started while drawing-district was in progress
C2_SwitchedWhileDrawing ==
  /\ lastOp.op = "startDrawingPark"
  /\ lastOp.from = "district"
  /\ isDrawingPark
  /\ emitted = <<>>

\* C3: a polygon completed in drawing-district (drawing-park) mode emits
\* exactly one district (park) creation event with the drawn geometry and
\* leaves the mode idle; a map click in placing-facility mode emits exactly
\* one facility creation event with the clicked point and leaves the mode
\* idle with no click listener, and a click in any other mode emits nothing.
C3_CompletionEmitsOnce ==
  [][ /\ \A src \in HandlerSources, g \in Geoms :
           (drawCreated(src, g) /\ Mode \in {"district", "park"})
             => (emitted' = <<CreationEvent(Mode, g)>> /\ Mode' = "idle")
      /\ \A g \in Geoms :
           mapClick(g)
             => IF Mode = "facility"
                THEN /\ emitted' = <<CreationEvent("facility", g)>>
                     /\ Mode' = "idle"
                     /\ clickListeners' = 0
                ELSE emitted' = <<>> ]_vars

\* the map was clicked in placing-facility mode
C3_FacilityPlaced ==
  /\ lastOp.op = "mapClick"
  /\ lastOp.from = "facility"
  /\ emitted = <<CreationEvent("facility", lastOp.arg)>>
  /\ Mode = "idle"

\* C4: cancel from a non-idle mode ends idle with the referenced draw
\* handler disabled and no click listener attached (a drawing mode always has
\* its handler referenced), and no creation event is emitted while the mode is
\* idle, whatever is clicked or completed, until a start action is taken.
C4_CancelEndsIdle ==
  [][ /\ cancelAllModes
           => /\ Mode' = "idle"
              /\ activeDrawHandler' = "null"
              /\ CleanedUp
              /\ emitted' = <<>>
      /\ Mode \in {"district", "park"} => activeDrawHandler = "handler"
      /\ Mode = "idle" => emitted' = <<>> ]_vars

\* placing-facility was cancelled while the toolbar's polygon handler is
\* enabled, so that both a click and a completion can follow
C4_Cancelled ==
  /\ lastOp.op = "cancelAllModes"
  /\ lastOp.from = "facility"
  /\ Mode = "idle"
  /\ toolbarEnabled

\* ---------------------------------------------------------------- filter and render properties
\* the render effects have run on the current store and selection
AfterRender == Settled /\ filtersInitialized

\* the visibility cascade of a park, as the filter contract words it
ParkVisible(park) ==
  /\ park.id \in selectedParks
  /\ (park.districtId = NULL \/ park.districtId \in selectedDistricts)

UnderDeselectedDistrict(park) ==
  park.districtId # NULL /\ park.districtId \notin selectedDistricts

FacilityVisible(facility) ==
  /\ facility.type \in selectedFacilityTypes
  /\ facility.parkId # NULL =>
       /\ facility.parkId \in selectedParks
       /\ \A i \in 1..Len(parks) :
            parks[i].id = facility.parkId
              => (parks[i].districtId = NULL \/ parks[i].districtId \in selectedDistricts)

\* C6: after each render a facility is in the marker layer iff its type is
\* selected and, when it has a park, the park's id is selected and the park's
\* district, if any, is selected.
C6_FacilityRenderedIffVisible ==
  AfterRender =>
    \A i \in 1..Len(facilities) :
      (facilities[i].id \in Rendered(markerClusterGroup))
        <=> FacilityVisible(facilities[i])

\* a render has left out a facility of a selected type and park, because
\* the park's district is not selected
C6_HiddenByDistrict ==
  /\ AfterRender
  /\ \E i \in 1..Len(facilities), j \in 1..Len(parks) :
       /\ facilities[i].type \in selectedFacilityTypes
       /\ facilities[i].parkId = parks[j].id
       /\ parks[j].id \in selectedParks
       /\ UnderDeselectedDistrict(parks[j])
       /\ facilities[i].id \notin Rendered(markerClusterGroup)

\* C7 (as stated): the render that follows toggling a district, park or
\* facility type off leaves it and its cascade-dependents (the district's
\* parks, the facilities of the park or of the type) out of the rendered layers.
C7_ToggledOffIsHidden ==
  [][ FlushEffects =>
        /\ (lastOp.op = "toggleDistrict" /\ lastOp.arg \notin selectedDistricts)
             => /\ lastOp.arg \notin Rendered(districtLayer')
                /\ \A i \in 1..Len(parks) :
                     parks[i].districtId = lastOp.arg
                       => parks[i].id \notin Rendered(drawnItems')
        /\ (lastOp.op = "togglePark" /\ lastOp.arg \notin selectedParks)
             => /\ lastOp.arg \notin Rendered(drawnItems')
                /\ \A i \in 1..Len(facilities) :
                     facilities[i].parkId = lastOp.arg
                       => facilities[i].id \notin Rendered(markerClusterGroup')
        /\ (lastOp.op = "toggleFacilityType"
              /\ FACILITY_TYPES[lastOp.arg] \notin selectedFacilityTypes)
             => \A i \in 1..Len(facilities) :
                  facilities[i].type = FACILITY_TYPES[lastOp.arg]
                    => facilities[i].id \notin Rendered(markerClusterGroup') ]_vars

FilterAction ==
  \/ \E id \in DistrictIds : toggleDistrict(id)
  \/ \E id \in ParkIds : togglePark(id)
  \/ \E type \in FacilityTypeKeys : toggleFacilityType(type)
  \/ selectAllDistricts
  \/ deselectAllDistricts
  \/ selectAllParks
  \/ deselectAllParks
  \/ selectAllFacilityTypes
  \/ deselectAllFacilityTypes

\* C9: no filter operation (toggle, select-all, deselect-all of districts,
\* parks or facility types), and no effect run that follows one, changes the
\* districts, parks or facilities list of the store.
C9_FilterKeepsStore ==
  [][ (FilterAction \/ (FlushEffects /\ lastOp.op \in FilterOps))
        => UNCHANGED <<districts, parks, facilities>> ]_vars

\* deselect-all-districts has run, with its effects, on a store that has
\* districts, parks and facilities
C9_DeselectedAll ==
  /\ lastOp.op = "deselectAllDistricts"
  /\ AfterRender
  /\ districts # <<>>
  /\ parks # <<>>
  /\ facilities # <<>>

C11_DeselectedParkStaysHidden ==
  (resurrect.stage = 4 /\ AfterRender)
    => /\ resurrect.park \notin selectedParks
       /\ resurrect.park \notin Rendered(drawnItems)

\* the state right after the first run of the effects of the mounted Map
FirstLoad == lastOp.op = "mount" /\ AfterRender

WithGeometry(list) == {list[i].id : i \in {j \in 1..Len(list) : list[j].geometry # NULL}}

AllSelected ==
  /\ selectedDistricts = Ids(districts)
  /\ selectedParks = Ids(parks)
  /\ selectedFacilityTypes = FacilityTypeKeys

C14_ParkDeleteCascades ==
  [][ \A id \in ParkIds :
        handleParkDelete(id, TRUE, TRUE) =>
          /\ id \notin Ids(parks')
          /\ \A j \in 1..Len(facilities') : facilities'[j].parkId # id
          /\ Range(parks') = {p \in Range(parks) : p.id # id}
          /\ Range(facilities') = {f \in Range(facilities) : f.parkId # id}
          /\ Len(parks') = Cardinality(Range(parks'))
    ]_vars

\* a park was deleted, its facility went with it (the marker is still in
\* the layer until the render) and another park is still in the list
C14_ParkAndFacilityDeleted ==
  /\ lastOp.op = "handleParkDelete"
  /\ io = <<"confirm", "request">>
  /\ lastOp.arg \notin Ids(parks)
  /\ parks # <<>>
  /\ facilities = <<>>
  /\ markerClusterGroup # <<>>

\* C15: a confirmed and successful district delete removes that district
\* only: the parks list, with the parks of the deleted district, and the
\* facilities list are unchanged.
C15_DistrictDeleteDoesNotCascade ==
  [][ \A id \in DistrictIds :
        handleDistrictDelete(id, TRUE, TRUE) =>
          /\ Range(districts') = {d \in Range(districts) : d.id # id}
          /\ id \notin Ids(districts')
          /\ parks' = parks
          /\ facilities' = facilities
    ]_vars

\* a district was deleted and a park of it is still in the list
C15_ParkOfDeletedDistrictKept ==
  /\ lastOp.op = "handleDistrictDelete"
  /\ io = <<"confirm", "request">>
  /\ lastOp.arg \notin Ids(districts)
  /\ \E i \in 1..Len(parks) : parks[i].districtId = lastOp.arg

DeleteOps == {"handleDistrictDelete", "handleParkDelete", "handleFacilityDelete"}

Delete(confirmed, ok) ==
  \/ \E id \in DistrictIds : handleDistrictDelete(id, confirmed, ok)
  \/ \E id \in ParkIds : handleParkDelete(id, confirmed, ok)
  \/ \E id \in FacilityIds : handleFacilityDelete(id, confirmed, ok)

\* C16: a delete that is not confirmed sends no request; a confirmed delete
\* whose request fails shows an alert and leaves the three lists as they were.
C16_DeleteNeedsConfirmAndFailureKeepsLists ==
  [][ /\ (\E ok \in BOOLEAN : Delete(FALSE, ok))
        => ("request" \notin Range(io') /\ UNCHANGED storeVars)
      /\ Delete(TRUE, FALSE)
        => (/\ "request" \in Range(io')
            /\ "alert" \in Range(io')
            /\ UNCHANGED storeVars)
    ]_vars

\* a confirmed delete failed: the alert was shown and the entity is still
\* in its list
C16_DeleteFailed ==
  /\ lastOp.op \in DeleteOps
  /\ io = <<"confirm", "request", "alert">>
  /\ lastOp.arg \in Ids(districts) \cup Ids(parks) \cup Ids(facilities)

\* the elements of the three layers that stand for a stored entity
EntityElements ==
  {e \in Range(districtLayer) \cup Range(drawnItems) \cup Range(markerClusterGroup) :
     e.id # NULL}

\* C17: in every settled state with placing-facility active no element of
\* the district, park or facility layer has a popup bound; in every settled
\* state in which the mode is not active (so after it was left by the click
\* or by cancel) every entity's element has its popup.
C17_NoPopupsWhilePlacing ==
  AfterRender =>
    /\ isPlacingFacility
         => \A e \in Range(districtLayer) \cup Range(drawnItems)
                       \cup Range(markerClusterGroup) : ~e.popup
    /\ ~isPlacingFacility => \A e \in EntityElements : e.popup

\* placing-facility is active and rendered over a district, a park and a
\* facility
C17_PlacingOverRenderedEntities ==
  /\ AfterRender
  /\ isPlacingFacility
  /\ districtLayer # <<>>
  /\ Rendered(drawnItems) # {}
  /\ markerClusterGroup # <<>>

\* the last handler was the submit of a new entity of the kind, and the
\* reaction to it has run (the sub-specification of creation has no edit, so
\* every submit appends a new row)
Arrived(op) == AfterRender /\ lastOp.op = op /\ lastOp.arg # NULL

ExactLayer(layer, ids) == Len(layer) = Cardinality(ids) /\ Ids(layer) = ids

VisibleDistricts ==
  {d.id : d \in {e \in Range(districts) : e.id \in selectedDistricts /\ e.geometry # NULL}}

VisibleParks ==
  {p.id : p \in {e \in Range(parks) : ParkVisible(e) /\ e.geometry # NULL}}

VisibleFacilities == {f.id : f \in {e \in Range(facilities) : FacilityVisible(e)}}

StoreChanges == {"handleDistrictSubmit", "handleParkSubmit", "handleFacilitySubmit"}

\* C18: after the reaction to a change of the store, each of the three
\* layers holds exactly one element per visible entity of its kind: nothing
\* stale, nothing twice, nothing left from a completed draw.
C18_LayersHoldVisibleEntitiesOnly ==
  (AfterRender /\ lastOp.op \in StoreChanges)
    => /\ ExactLayer(districtLayer, VisibleDistricts)
       /\ ExactLayer(drawnItems, VisibleParks)
       /\ ExactLayer(markerClusterGroup, VisibleFacilities)

\* ---------------------------------------------------------------- form properties
InFlight(kind) == Cardinality({i \in 1..Len(requests) : requests[i].kind = kind})

\* the form component of the kind has a request of its own in flight
Awaiting(kind) == \E i \in 1..Len(requests) : requests[i].kind = kind /\ requests[i].live

\* C19: for each form (district, park, facility) at most one submit request
\* is in flight at any time, and the form's submit control is disabled exactly
\* while a request it has sent is unanswered.
C19_AtMostOneSubmitInFlight ==
  \A kind \in FormKinds :
    /\ InFlight(kind) <= 1
    /\ FormOpen(kind) => (formState[kind].loading <=> Awaiting(kind))

\* C20: when a submit request fails (non-OK response or network error) the
\* store and the page's form state are unchanged, and the form that sent the
\* request, which is still open, shows the server's or the generic error with
\* its submit control enabled again.
C20_FailedSubmitShowsErrorAndKeepsStore ==
  [][ \A i \in 1..MaxInflight, error \in ErrorShown :
        responded(i, FALSE, error) =>
          /\ UNCHANGED storeVars
          /\ UNCHANGED <<districtForm, parkForm, facilityForm>>
          /\ requests[i].live =>
               /\ FormOpen(requests[i].kind)
               /\ formState'[requests[i].kind].error = error
               /\ ~formState'[requests[i].kind].loading
    ]_vars

\* a submit request of the open form failed: the form shows an error and can
\* be submitted again
C20_SubmitFailed ==
  /\ lastOp.op = "submitFailed"
  /\ \E kind \in FormKinds :
       /\ FormOpen(kind)
       /\ formState[kind].error \in ErrorShown
       /\ ~formState[kind].loading

\* C25: a successful submission appends the returned entity when it was a
\* create, and when it was an edit replaces exactly the element with the
\* same id, the list keeping its length and its other elements.
C25_StoreReflectsResponse ==
  [][ \A i \in 1..MaxInflight :
        responded(i, TRUE, "none") =>
          LET r == requests[i]
              row == ServerRow(r)
              list == List(r.kind)
              after == IF r.kind = "district" THEN districts'
                       ELSE IF r.kind = "park" THEN parks' ELSE facilities'
          IN  IF r.id = NULL
              THEN after = Append(list, row)
              ELSE /\ Len(after) = Len(list)
                   /\ \A j \in 1..Len(list) :
                        after[j] = IF list[j].id = row.id THEN row ELSE list[j]
    ]_vars

\* C26: every facility of the store that has a parkId references a park
\* that is in the parks list, whatever was created, edited or deleted and
\* whichever responses were still outstanding.
C26_FacilityParkInStore ==
  \A j \in 1..Len(facilities) :
    facilities[j].parkId # NULL => facilities[j].parkId \in Ids(parks)

\* C32: whatever the interleaving of form open, submit, backdrop close while a
\* request is in flight, response and delete, each list of the store holds
\* at most one entity per id.
OnePerId(list) ==
  \A i, j \in 1..Len(list) : list[i].id = list[j].id => i = j

C32_StoreListsHaveOneEntityPerId ==
  /\ OnePerId(districts)
  /\ OnePerId(parks)
  /\ OnePerId(facilities)

\* C33: a response affects only the form that sent the request: when it
\* arrives after that form was closed and another form of the same kind has
\* been opened since, the open form, its geometry and its editing target are
\* left as they are.
C33_ResponseLeavesOtherFormAlone ==
  [][ \A i \in 1..MaxInflight, ok \in BOOLEAN, error \in ErrorShown \cup {"none"} :
        ( /\ responded(i, ok, error)
          /\ ~requests[i].live
          /\ FormOpen(requests[i].kind) )
        => /\ districtForm' = districtForm
           /\ parkForm' = parkForm
           /\ facilityForm' = facilityForm
           /\ formState' = formState
    ]_vars

\* C34: a change of the store (create, edit or delete) changes the selected
\* sets only by adding the ids of entities that have just arrived: the
\* district, park or facility type the user had deselected before the change
\* is still deselected after it.
StillDeselected ==
  IF deselected.dim = "district"
  THEN deselected.key \in Ids(districts) => deselected.key \notin selectedDistricts
  ELSE IF deselected.dim = "park"
  THEN deselected.key \in Ids(parks) => deselected.key \notin selectedParks
  ELSE FACILITY_TYPES[deselected.key] \notin selectedFacilityTypes

C34_StoreChangeKeepsDeselected ==
  deselected.changed => StillDeselected

\* C35: after deselect-all-districts the selected-districts set is empty and
\* stays empty through the reaction that follows, so that no district, no
\* park that has a district and no facility of such a park is rendered; after
\* deselect-all-facility-types the selected-types set is empty and stays so,
\* and no facility is rendered.
C35_DeselectAllStaysEmpty ==
  [][ FlushEffects =>
        /\ lastOp.op = "deselectAllDistricts"
             => /\ selectedDistricts' = {}
                /\ Rendered(districtLayer') = {}
                /\ \A i \in 1..Len(parks) :
                     parks[i].districtId # NULL
                       => /\ parks[i].id \notin Rendered(drawnItems')
                          /\ \A j \in 1..Len(facilities) :
                               facilities[j].parkId = parks[i].id
                                 => facilities[j].id \notin Rendered(markerClusterGroup')
        /\ lastOp.op = "deselectAllFacilityTypes"
             => /\ selectedFacilityTypes' = {}
                /\ Rendered(markerClusterGroup') = {}
    ]_vars

SelectableDistricts == selectedDistricts \cup Ids(districts)

\* C37: every park of the store can be made visible by some sequence of the
\* filter panel's operations; no sequence of filter and delete operations
\* leaves a stored park hidden for good, in particular not a park whose
\* district was deleted.  A park that has a district is shown only while
\* that district is selected, so its district must be selected or selectable.
C37_EveryStoredParkCanBeShown ==
  \A i \in 1..Len(parks) :
    parks[i].districtId # NULL => parks[i].districtId \in SelectableDistricts

\* no step brings a district into the selected set that is not in the store
OnlyStoredDistrictsBecomeSelected ==
  [][selectedDistricts' \subseteq selectedDistricts \cup Ids(districts')]_vars

\* C38: at any time at most one one-shot 'click' listener for placing a
\* facility is registered on the map, and one is registered exactly when
\* placing-facility mode is active: the click that fires it, cancel and every
\* start action remove it (startPlacingFacility then registers a new one).
C38_OneClickListenerIffPlacing ==
  [][ /\ clickListeners' <= 1
      /\ clickListeners' = 1 <=> isPlacingFacility'
      /\ (\E g \in Geoms : mapClick(g)) => clickListeners' = 0
      /\ cancelAllModes => clickListeners' = 0
      /\ (startDrawingDistrict \/ startDrawingPark) => clickListeners' = 0
      /\ startPlacingFacility => clickListeners' = 1
    ]_vars

\* a start action has removed the listener that placing mode had registered
C38_StartRemovedListener ==
  /\ lastOp.op \in {"startDrawingDistrict", "startDrawingPark"}
  /\ lastOp.from = "facility"
  /\ clickListeners = 0
  /\ ~isPlacingFacility

\* C39: creation events are emitted only while admin mode is on: after a
\* logout with a draw or placement mode active, completing the polygon or
\* clicking the map emits no creation event and opens no creation form.
C39_NoCreationAfterLogout ==
  [][ ~isAuthenticated =>
        /\ emitted' = <<>>
        /\ districtForm'.show => districtForm.show
        /\ parkForm'.show => parkForm.show
        /\ facilityForm'.show => facilityForm.show
    ]_vars

\* ---------------------------------------------------------------- page: onMount
\* How a load of onMount can end: the server answers with the rows, fetch
\* rejects, the body is not JSON, or the server answers 500 with its error body.
LoadOutcomes == {"rows", "network", "unparsable", "error"}

\* GET of a table on the server: every row, or the error body when the select
\* throws.  The parks and facilities endpoints follow the districts endpoint.
GET(table, selectThrows) ==
  IF selectThrows THEN [error |-> "Failed to fetch"] ELSE db[table]

\* What `list = await response.json()` inside try/catch leaves in the list.
Assigned(list, table, outcome) ==
  IF outcome \in {"network", "unparsable"} THEN list
  ELSE GET(table, outcome = "error")

AfterLoad(table) ==
  IF table = "districts" THEN "parks"
  ELSE IF table = "parks" THEN "facilities" ELSE "mounted"

IsEmptyList(value) == DOMAIN value = {}

checkAuth(answered, authenticated) ==
  /\ mount = "checkAuth"
  /\ isAuthenticated' = IF answered THEN authenticated ELSE FALSE
  /\ mount' = "districts"
  /\ lastOp' = Op("checkAuth", NULL)
  /\ UNCHANGED <<storeVars, districtForm, parkForm, facilityForm, serial, modeVars,
                 filterVars, layerVars, deps, dirty, formVars, emitted, roundTrip, io,
                 resurrect, deselected, db, loaded, serverVars, facilityFields,
                 saving>>

\* loadDistricts, loadParks and loadFacilities of the page, in the order of
\* onMount; after the last one loading becomes false and the Map is mounted.
pageLoad(outcome) ==
  /\ mount \in Tables
  /\ districts' = IF mount = "districts" THEN Assigned(districts, mount, outcome)
                  ELSE districts
  /\ parks' = IF mount = "parks" THEN Assigned(parks, mount, outcome) ELSE parks
  /\ facilities' = IF mount = "facilities" THEN Assigned(facilities, mount, outcome)
                   ELSE facilities
  /\ loaded' = [loaded EXCEPT ![mount] = outcome]
  /\ mount' = AfterLoad(mount)
  /\ dirty' = IF mount' = "mounted" THEN Effects ELSE dirty
  /\ drawControl' = IF mount' = "mounted" /\ isAuthenticated THEN "added" ELSE drawControl
  /\ lastOp' = Op("pageLoad", NULL)
  /\ UNCHANGED <<pageVars, activeDrawHandler, enabledHandlers, toolbarEnabled,
                 clickListeners, isDrawingDistrict, isDrawingPark, isPlacingFacility,
                 filterVars, layerVars, deps, formVars, emitted, roundTrip, io,
                 resurrect, deselected, db, serverVars, facilityFields, saving>>

NextLoad ==
  \/ \E answered, authenticated \in BOOLEAN : checkAuth(answered, authenticated)
  \/ \E outcome \in LoadOutcomes : pageLoad(outcome)

\* The page before onMount has run: empty lists, nobody authenticated, no Map.
PageBeforeMount ==
  /\ districts = <<>>
  /\ parks = <<>>
  /\ facilities = <<>>
  /\ isAuthenticated = FALSE
  /\ districtForm = ClosedForm
  /\ parkForm = ClosedForm
  /\ facilityForm = ClosedForm
  /\ drawControl = "undefined"
  /\ activeDrawHandler = "null"
  /\ enabledHandlers = 0
  /\ toolbarEnabled = FALSE
  /\ clickListeners = 0
  /\ isDrawingDistrict = FALSE
  /\ isDrawingPark = FALSE
  /\ isPlacingFacility = FALSE
  /\ selectedDistricts = {}
  /\ selectedParks = {}
  /\ selectedFacilityTypes = {}
  /\ filtersInitialized = FALSE
  /\ districtLayer = <<>>
  /\ drawnItems = <<>>
  /\ markerClusterGroup = <<>>
  /\ deps = [e \in Effects |-> {}]
  /\ dirty = {}
  /\ lastOp = Op("construct", NULL)
  /\ emitted = <<>>
  /\ roundTrip = NoTrip
  /\ formState = [k \in FormKinds |-> FreshForm]
  /\ requests = <<>>
  /\ io = <<>>
  /\ resurrect = NoScenario
  /\ deselected = NothingDeselected
  /\ mount = "checkAuth"
  /\ loaded = [t \in Tables |-> "pending"]

InitLoad ==
  /\ PageBeforeMount
  /\ \E ds \in LoadedDistricts : \E ps \in LoadedParks(ds) :
       \E fs \in LoadedFacilities(ps) :
         db = [districts |-> ds, parks |-> ps, facilities |-> fs]
  /\ serial = [districts |-> MaxOf(Ids(db.districts)), parks |-> MaxOf(Ids(db.parks)),
               facilities |-> MaxOf(Ids(db.facilities))]
  /\ cookies = [r \in Requesters |-> NULL]
  /\ issued = {}
  /\ setCookie = NoCookie
  /\ pending = <<>>
  /\ answer = NoAnswer
  /\ facilityFields = NoFacilityForm
  /\ saving = NotSaving

SpecLoad == InitLoad /\ [][NextLoad]_vars

\* C24: when onMount has finished, a list whose load failed (fetch rejected,
\* body not JSON, or an error response) is an empty list, and every list whose
\* load was answered with the rows holds the rows of its table.
C24_FailedLoadLeavesEmptyList ==
  mount = "mounted" =>
    \A t \in Tables :
      LET list == IF t = "districts" THEN districts
                  ELSE IF t = "parks" THEN parks ELSE facilities
      IN  IF loaded[t] = "rows" THEN list = db[t] ELSE IsEmptyList(list)

\* ---------------------------------------------------------------- server
\* isAuthenticated(cookies) of the server: the cookie is there and not empty
serverIsAuthenticated(session) == session # NULL

\* createSession: the options cookies.set is called with
createSession(sessionToken) ==
  [name |-> "admin_session", value |-> sessionToken, path |-> "/", httpOnly |-> TRUE,
   secure |-> FALSE, sameSite |-> "lax"]

\* login: verifyCredentials, and createSession when they match; the token is
\* set in the requester's cookie and kept nowhere on the server
login(r, credentialsMatch) ==
  /\ credentialsMatch => Cardinality(issued) < MaxTokens
  /\ cookies' = IF credentialsMatch
                THEN [cookies EXCEPT ![r] = Cardinality(issued) + 1]
                ELSE cookies
  /\ issued' = IF credentialsMatch THEN issued \cup {Cardinality(issued) + 1}
               ELSE issued
  /\ setCookie' = IF credentialsMatch THEN createSession(Cardinality(issued) + 1)
                  ELSE setCookie
  /\ UNCHANGED <<lastOp, facilityFields, saving, storeVars, pageVars, modeVars, filterVars, layerVars, deps, dirty,
                 formVars, emitted, roundTrip, io, resurrect, deselected, loadVars, pending,
                 answer>>

\* logout: destroySession deletes the requester's cookie
logout(r) ==
  /\ cookies[r] # NULL
  /\ cookies' = [cookies EXCEPT ![r] = NULL]
  /\ UNCHANGED <<lastOp, facilityFields, saving, storeVars, pageVars, modeVars, filterVars, layerVars, deps, dirty,
                 formVars, emitted, roundTrip, io, resurrect, deselected, loadVars, issued, setCookie,
                 pending, answer>>

\* the Cookie header is the requester's to write: it sends admin_session with
\* a value of its own
sendOwnCookie(r) ==
  /\ cookies[r] # Forged
  /\ cookies' = [cookies EXCEPT ![r] = Forged]
  /\ UNCHANGED <<lastOp, facilityFields, saving, storeVars, pageVars, modeVars, filterVars, layerVars, deps, dirty,
                 formVars, emitted, roundTrip, io, resurrect, deselected, loadVars, issued, setCookie,
                 pending, answer>>

Methods == {"POST", "PUT", "DELETE"}

\* POST, PUT and DELETE of a district up to the database call: 401 without a
\* cookie, otherwise the request goes on to the database
request(r, method, id, geometry) ==
  /\ Len(pending) < MaxPending
  /\ \A i \in 1..Len(pending) : pending[i].by # r
  /\ method = "POST" => id = NULL
  /\ method # "POST" => id # NULL
  /\ method = "DELETE" => geometry = NULL
  /\ IF serverIsAuthenticated(cookies[r])
     THEN /\ pending' = Append(pending, [by |-> r, method |-> method, id |-> id,
                                         geometry |-> geometry, raced |-> FALSE])
          /\ UNCHANGED answer
     ELSE /\ answer' = [to |-> r, status |-> 401, method |-> method, id |-> id,
                       geometry |-> geometry, raced |-> FALSE]
          /\ UNCHANGED pending
  /\ UNCHANGED <<lastOp, facilityFields, saving, storeVars, pageVars, modeVars, filterVars, layerVars, deps, dirty,
                 formVars, emitted, roundTrip, io, resurrect, deselected, loadVars, cookies,
                 issued, setCookie>>

\* db.update(districts).set(...).where(eq(districts.id, id))
UpdatedKeepingStoredRow(rows, id, geometry) == rows

Updated(rows, id, geometry) == Replace(rows, [id |-> id, geometry |-> geometry])

\* the table after the statement of a request
Statement(p, rows) ==
  IF p.method = "POST"
    THEN Append(rows, [id |-> serial.districts + 1, geometry |-> p.geometry])
  ELSE IF p.method = "PUT" THEN Updated(rows, p.id, p.geometry)
  ELSE SelectSeq(rows, LAMBDA row : row.id # p.id)

\* the database call of an accepted request and its response: the statement
\* is applied and answered 200, or it throws and is answered 500 (raced
\* records that a different update of the same district was applied while
\* this one was under way)
dbApply(i, throws) ==
  /\ i \in 1..Len(pending)
  /\ (~throws /\ pending[i].method = "POST") => serial.districts < MaxDistricts
  /\ db' = IF throws THEN db
           ELSE [db EXCEPT !.districts = Statement(pending[i], @)]
  /\ serial' = IF ~throws /\ pending[i].method = "POST"
               THEN [serial EXCEPT !.districts = @ + 1] ELSE serial
  /\ answer' = [to |-> pending[i].by, status |-> IF throws THEN 500 ELSE 200,
                method |-> pending[i].method, id |-> pending[i].id,
                geometry |-> pending[i].geometry, raced |-> pending[i].raced]
  /\ pending' = [j \in 1..(Len(pending) - 1) |->
                   LET p == Remove(pending, i)[j]
                   IN  IF /\ ~throws
                          /\ pending[i].method = "PUT" /\ p.method = "PUT"
                          /\ p.id = pending[i].id /\ p.geometry # pending[i].geometry
                          /\ Found(db.districts, p.id)
                       THEN [p EXCEPT !.raced = TRUE] ELSE p]
  /\ UNCHANGED <<lastOp, facilityFields, saving, storeVars, isAuthenticated, districtForm, parkForm, facilityForm,
                 modeVars, filterVars, layerVars, deps, dirty, formVars, emitted,
                 roundTrip, io, resurrect, deselected, mount, loaded, cookies, issued,
                 setCookie>>

NextServer ==
  \/ \E r \in Requesters, m \in BOOLEAN : login(r, m)
  \/ \E r \in Requesters : logout(r)
  \/ \E r \in Requesters : sendOwnCookie(r)
  \/ \E r \in Requesters, method \in Methods, id \in DistrictIds \cup {NULL},
        g \in Geoms \cup {NULL} : request(r, method, id, g)
  \/ \E i \in 1..MaxPending, throws \in BOOLEAN : dbApply(i, throws)

\* The server with its districts table, before any page has been loaded.
InitServer ==
  /\ PageBeforeMount
  /\ \E ds \in LoadedDistricts : db = [districts |-> ds, parks |-> <<>>, facilities |-> <<>>]
  /\ serial = [districts |-> MaxOf(Ids(db.districts)), parks |-> 0, facilities |-> 0]
  /\ cookies = [r \in Requesters |-> NULL]
  /\ issued = {}
  /\ setCookie = NoCookie
  /\ pending = <<>>
  /\ answer = NoAnswer
  /\ facilityFields = NoFacilityForm
  /\ saving = NotSaving

SpecServer == InitServer /\ [][NextServer]_vars

\* C27: a mutating district request goes on to the database only when its
\* requester holds a session that a successful login has established; every
\* other one is answered 401 and leaves the database as it was.
C27_OnlyLoginSessionsMutate ==
  [][ /\ \A r \in Requesters, method \in Methods, id \in DistrictIds \cup {NULL},
            g \in Geoms \cup {NULL} :
           (request(r, method, id, g) /\ cookies[r] \notin issued)
             => (answer'.to = r /\ answer'.status = 401 /\ pending' = pending /\ db' = db)
      /\ db' # db => \E i \in 1..Len(pending) : dbApply(i, FALSE)
    ]_vars

\* C28: an update of a district that reaches the database is answered 200 and
\* leaves the row equal to it, whatever other update of the same district is
\* under way; of two concurrent updates the one applied last is the one stored.
C28_LastAppliedUpdateWins ==
  [][ \A i \in 1..MaxPending :
        ( /\ dbApply(i, FALSE)
          /\ pending[i].method = "PUT"
          /\ Found(db.districts, pending[i].id) )
        => /\ answer'.to = pending[i].by
           /\ answer'.status = 200
           /\ Find(db'.districts, pending[i].id).geometry = pending[i].geometry
    ]_vars

\* two updates of the same district, under way together, have both been
\* answered 200 and the row holds the one applied last
C28_EarlierUpdateOverwritten ==
  /\ \A r \in Requesters : cookies[r] \in issued
  /\ cookies["a"] # cookies["b"]
  /\ answer.status = 200
  /\ answer.method = "PUT"
  /\ answer.raced
  /\ Found(db.districts, answer.id)
  /\ Find(db.districts, answer.id).geometry = answer.geometry

\* C31: every session cookie issued on login is set with both the httpOnly
\* and the secure attribute.
C31_SessionCookieHttpOnlyAndSecure ==
  \A r \in Requesters :
    (cookies[r] \in issued /\ setCookie.value = cookies[r])
      => setCookie.httpOnly /\ setCookie.secure

\* C30: the row that a submitted district or park form has persisted, and
\* that the server has returned to the store, has a GeoJSON geometry (an
\* object with type and coordinates), never null.
C30_PersistedGeometryIsGeoJSON ==
  /\ lastOp.op = "handleDistrictSubmit"
       => Find(districts, lastOp.arg).geometry # NULL
  /\ lastOp.op = "handleParkSubmit"
       => Find(parks, lastOp.arg).geometry # NULL

\* ---------------------------------------------------------------- form fields
\* bind:value of a district or park form: the user changes the name or the
\* geometry text (breaks its JSON, repairs broken JSON, or replaces it by
\* null), or chooses in the park form's select (id NULL: the empty option)
input(kind, field, value) ==
  /\ Settled
  /\ filtersInitialized
  /\ FormOpen(kind)
  /\ \/ /\ kind \in {"district", "park"}
        /\ field = "name"
        /\ value \in {"empty", "typed"}
     \/ /\ kind \in {"district", "park"}
        /\ field = "text"
        /\ \/ value \in {"malformed", "null"}
           \/ value = "repaired" /\ formState[kind].text = "malformed"
     \/ /\ kind = "park"
        /\ field = "districtId"
        /\ value \in {[set |-> TRUE, id |-> d] : d \in Ids(districts) \cup {NULL}}
  /\ formState[kind][field] # value
  /\ formState' = [formState EXCEPT ![kind][field] = value]
  /\ lastOp' = Op("input", NULL)
  /\ emitted' = <<>>
  /\ io' = <<>>
  /\ roundTrip' = NoTrip
  /\ resurrect' = NoScenario
  /\ deselected' = NothingDeselected
  /\ UNCHANGED <<storeVars, pageVars, modeVars, filterVars, layerVars, deps, dirty,
                 requests, sideVars>>

\* geometryError of the form: JSON.parse of the text throws
geometryError(kind) == formState[kind].text = "malformed"

\* the tests of handleSubmit before loading = true: name, districtId (park
\* form), geometryError
OtherFieldsFilled(kind) ==
  LET f == formState[kind]
      entity == Find(List(kind), PageForm(kind).editing)
  IN  /\ IF f.name = "initial" THEN PageForm(kind).editing # NULL ELSE f.name = "typed"
      /\ kind = "park" =>
           IF f.districtId.set THEN f.districtId.id # NULL
           ELSE PageForm(kind).editing # NULL /\ entity.districtId # NULL

ValidWithoutGeometryTest(kind) == OtherFieldsFilled(kind)

Valid(kind) == OtherFieldsFilled(kind) /\ ~geometryError(kind)

\* the body of the request: geometry: finalGeometry, districtId: parseInt(districtId)
Body(kind) ==
  LET f == formState[kind]
      finalGeometry == IF f.text = "null" THEN NULL ELSE PageForm(kind).geometry
  IN  IF kind = "district" THEN [geometry |-> finalGeometry]
      ELSE [districtId |-> IF f.districtId.set THEN f.districtId.id
                           ELSE Find(parks, parkForm.editing).districtId,
            geometry |-> finalGeometry]

\* handleSubmit of the district or park form on the fields as they are
submitForm(kind) ==
  /\ kind \in {"district", "park"}
  /\ FormOpen(kind)
  /\ handleSubmit(kind, Valid(kind), IF Valid(kind) THEN Body(kind) ELSE NoRow)

\* the district and park forms with their fields: opened by an edit button,
\* filled in, submitted, answered by the server
NextFields ==
  \/ FlushEffects
  \/ \E id \in DistrictIds : handleDistrictEdit(id)
  \/ \E id \in ParkIds : handleParkEdit(id)
  \/ \E kind \in FormKinds, field \in {"name", "text"},
        value \in {"empty", "typed", "malformed", "repaired", "null"} :
       input(kind, field, value)
  \/ \E d \in DistrictIds \cup {NULL} :
       input("park", "districtId", [set |-> TRUE, id |-> d])
  \/ \E kind \in FormKinds : submitForm(kind)
  \/ \E i \in 1..MaxInflight, ok \in BOOLEAN, error \in ErrorShown \cup {"none"} :
       responded(i, ok, error)

\* an admin's page on loads without facilities
InitFields ==
  /\ InitForms
  /\ isAuthenticated
  /\ facilities = <<>>

SpecFields == InitFields /\ [][NextFields]_vars


\* C21: while the geometry text of a district or park form is malformed JSON,
\* a submit sends no request, shows the validation message and leaves the
\* store as it was; once the text is repaired (and the other fields are
\* filled) a submit sends the request with the form's geometry.
C21_MalformedGeometryBlocksSubmit ==
  [][ \A kind \in {"district", "park"} :
        submitForm(kind) =>
          /\ geometryError(kind) =>
               /\ io' = <<>>
               /\ requests' = requests
               /\ formState'[kind].error = "validation"
               /\ ~formState'[kind].loading
               /\ UNCHANGED storeVars
          /\ (formState[kind].text = "repaired" /\ OtherFieldsFilled(kind)) =>
               /\ io' = <<"request">>
               /\ requests' = Append(requests,
                    [kind |-> kind, id |-> PageForm(kind).editing,
                     row |-> Body(kind), live |-> TRUE])
               /\ Body(kind).geometry = PageForm(kind).geometry
    ]_vars

\* a submit of the park form has just been refused for the malformed
\* geometry alone
C21_SubmitRefused ==
  /\ FormOpen("park")
  /\ lastOp.op = "handleSubmit"
  /\ geometryError("park")
  /\ OtherFieldsFilled("park")
  /\ formState["park"].error = "validation"
  /\ requests = <<>>

\* ---------------------------------------------------------------- facility form
\* The facility form taken on its own: its props are the placed point and the
\* page's parks, its state the park select, the name, error and loading.
\* The map is a row of MaxPoints places; a park's geometry is absent, a
\* polygon covering some of the places, or a value turf.polygon rejects.
Points == 1..MaxPoints

Shapes ==
  {[kind |-> "none", covers |-> {}], [kind |-> "malformed", covers |-> {}]}
    \cup {[kind |-> "polygon", covers |-> c] : c \in SUBSET Points}

FormParks ==
  UNION { { [i \in 1..n |-> [id |-> ids[i], shape |-> sh[i]]] :
              ids \in {f \in [1..n -> 1..MaxFormParks] :
                         \A i, j \in 1..n : i # j => f[i] # f[j]},
              sh \in [1..n -> Shapes] }
          : n \in 0..MaxFormParks }

\* detectedPark stopping at the first park turf.polygon rejects
detectedParkAbortingOnThrow(formParks, point) ==
  LET hits == {i \in 1..Len(formParks) :
                 /\ formParks[i].shape.kind = "polygon"
                 /\ point \in formParks[i].shape.covers
                 /\ \A j \in 1..(i - 1) : formParks[j].shape.kind # "malformed"}
  IN  IF hits = {} THEN NULL
      ELSE formParks[CHOOSE i \in hits : \A j \in hits : i <= j].id

\* detectedPark taking the first park that has a polygon
detectedParkWithoutPointTest(formParks, point) ==
  LET hits == {i \in 1..Len(formParks) : formParks[i].shape.kind = "polygon"}
  IN  IF hits = {} THEN NULL
      ELSE formParks[CHOOSE i \in hits : \A j \in hits : i <= j].id

\* detectedPark: the id of the first park in the list that has a geometry
\* from which turf.polygon makes a polygon containing the point (NULL: null)
detectedPark(formParks, point) ==
  LET hits == {i \in 1..Len(formParks) :
                 /\ formParks[i].shape.kind # "none"
                 /\ formParks[i].shape.kind # "malformed"
                 /\ point \in formParks[i].shape.covers}
  IN  IF hits = {} THEN NULL
      ELSE formParks[CHOOSE i \in hits : \A j \in hits : i <= j].id

\* the $effect of the form in create mode: the detected park is selected
\* while the select is empty; writing parkId, which it has read, runs it again
parkIdEffect ==
  LET f == facilityFields
      detected == detectedPark(f.parks, f.point)
      sets == detected # NULL /\ f.parkId = NULL
  IN  /\ f.dirty
      /\ facilityFields' = [f EXCEPT !.parkId = IF sets THEN detected ELSE @,
                                     !.dirty = sets]
      /\ UNCHANGED <<storeVars, pageVars, modeVars, filterVars, layerVars, deps, dirty,
                     formVars, historyVars, loadVars, serverVars, saving>>

\* bind:value of the park select (NULL: its empty option) and of the name
facilityInput(field, value) ==
  LET f == facilityFields
  IN  /\ ~f.dirty
      /\ f.sent = NULL
      /\ \/ /\ field = "parkId"
            /\ value \in Ids(f.parks) \cup {NULL}
            /\ value # f.parkId
            /\ facilityFields' =
                 [f EXCEPT !.parkId = value, !.touched = TRUE,
                           !.dirty = detectedPark(f.parks, f.point) # NULL]
         \/ /\ field = "name"
            /\ value # f.name
            /\ facilityFields' = [f EXCEPT !.name = value]
      /\ UNCHANGED <<storeVars, pageVars, modeVars, filterVars, layerVars, deps, dirty,
                     formVars, historyVars, loadVars, serverVars, saving>>

\* handleSubmit of the facility form up to the fetch
facilitySubmit ==
  LET f == facilityFields
  IN  /\ ~f.dirty
      /\ ~f.loading
      /\ facilityFields' =
           IF f.name = "empty" THEN [f EXCEPT !.error = "name"]
           ELSE IF f.parkId = NULL THEN [f EXCEPT !.error = "park"]
           ELSE [f EXCEPT !.error = "none", !.loading = TRUE, !.sent = f.parkId]
      /\ UNCHANGED <<storeVars, pageVars, modeVars, filterVars, layerVars, deps, dirty,
                     formVars, historyVars, loadVars, serverVars, saving>>

\* the rest of handleSubmit for a response that is not ok (an ok response
\* ends the form: onSubmit closes it)
facilityRefused ==
  LET f == facilityFields
  IN  /\ f.loading
      /\ facilityFields' = [f EXCEPT !.error = "server", !.loading = FALSE, !.sent = NULL]
      /\ UNCHANGED <<storeVars, pageVars, modeVars, filterVars, layerVars, deps, dirty,
                     formVars, historyVars, loadVars, serverVars, saving>>

NextFacilityForm ==
  \/ parkIdEffect
  \/ \E id \in 1..MaxFormParks \cup {NULL} : facilityInput("parkId", id)
  \/ \E name \in {"empty", "typed"} : facilityInput("name", name)
  \/ facilitySubmit
  \/ facilityRefused

\* a facility form just created in create mode, its $effect still to run
InitFacilityForm ==
  /\ PageMounted
  /\ districts = <<>>
  /\ parks = <<>>
  /\ facilities = <<>>
  /\ isAuthenticated
  /\ \E ps \in FormParks, point \in Points :
       facilityFields = [NoFacilityForm EXCEPT !.parks = ps, !.point = point,
                                               !.dirty = TRUE]
  /\ saving = NotSaving

SpecFacilityForm == InitFacilityForm /\ [][NextFacilityForm]_vars

\* the parks of the form whose polygon contains the placed point
Containing ==
  {i \in 1..Len(facilityFields.parks) :
     /\ facilityFields.parks[i].shape.kind = "polygon"
     /\ facilityFields.point \in facilityFields.parks[i].shape.covers}

\* the $effect has run and the user has not used the park select
AutoSelected == ~facilityFields.dirty /\ ~facilityFields.touched

\* C22: in create mode, once the form's reaction has run and before the user
\* touches the park select, a point inside exactly one park polygon has that
\* park selected, and a point outside every park polygon leaves the select
\* empty with no request sent by any submit.
C22_ParkAutoSelectedOrRequired ==
  AutoSelected =>
    /\ Cardinality(Containing) = 1 =>
         \A i \in Containing : facilityFields.parkId = facilityFields.parks[i].id
    /\ Containing = {} =>
         /\ facilityFields.parkId = NULL
         /\ facilityFields.sent = NULL
         /\ ~facilityFields.loading

\* the point is outside the polygons the parks have, and a submit with the
\* name filled in has been refused for the missing park
C22_SubmitWithoutParkRefused ==
  /\ AutoSelected
  /\ Containing = {}
  /\ \E i \in 1..Len(facilityFields.parks) :
       /\ facilityFields.parks[i].shape.kind = "polygon"
       /\ facilityFields.parks[i].shape.covers # {}
  /\ facilityFields.name = "typed"
  /\ facilityFields.error = "park"

\* C23: a park whose geometry turf.polygon rejects is never the park
\* selected automatically, and the first park whose polygon contains the
\* point is selected although a park before it in the list is malformed.
C23_MalformedParkSkipped ==
  AutoSelected =>
    /\ \A i \in 1..Len(facilityFields.parks) :
         facilityFields.parks[i].shape.kind = "malformed"
           => facilityFields.parkId # facilityFields.parks[i].id
    /\ \A j \in Containing :
         ( /\ \A i \in Containing : j <= i
           /\ \E i \in 1..(j - 1) : facilityFields.parks[i].shape.kind = "malformed" )
         => facilityFields.parkId = facilityFields.parks[j].id

\* the first park is malformed and the second, which contains the point, is
\* the one selected
C23_LaterParkDetected ==
  /\ AutoSelected
  /\ Len(facilityFields.parks) = 2
  /\ facilityFields.parks[1].shape.kind = "malformed"
  /\ Containing = {2}
  /\ facilityFields.parkId = facilityFields.parks[2].id

\* ---------------------------------------------------------------- a geometry on its way
\* One polygon followed from the form to the reloaded list.  A number is a
\* sign and a magnitude (so that -0 is a number), a ring a sequence of
\* <<longitude, latitude>>, and a JSON text the sequence of its number
\* tokens with the indentation it was written with.
Numbers == [neg : BOOLEAN, mag : 0..MaxCoordinate]

Rings == UNION {[1..n -> Numbers \X Numbers] : n \in 1..MaxRing}

\* JSON.stringify writing every number without its sign
StringifyUnsigned(ring, indent) ==
  LET token(x) == [sign |-> "", digits |-> x.mag, form |-> "plain"]
  IN  [indent |-> indent,
       ring |-> [i \in 1..Len(ring) |-> <<token(ring[i][1]), token(ring[i][2])>>]]

\* JSON.stringify(value, null, indent): the shortest decimal of each number,
\* -0 written as 0
Stringify(ring, indent) ==
  LET token(x) == [sign |-> IF x.neg /\ x.mag # 0 THEN "-" ELSE "",
                   digits |-> x.mag, form |-> "plain"]
  IN  [indent |-> indent,
       ring |-> [i \in 1..Len(ring) |-> <<token(ring[i][1]), token(ring[i][2])>>]]

\* JSON.parse / request.json() / response.json(): white space is skipped,
\* 1, 1.0 and 1e0 are the same number, -0 is read as -0
Parse(text) ==
  LET number(t) == [neg |-> t.sign = "-", mag |-> t.digits]
  IN  [i \in 1..Len(text.ring) |-> <<number(text.ring[i][1]), number(text.ring[i][2])>>]

\* bind:value of the textarea: the user types a polygon, its numbers in a
\* spelling of their choice (1, 1.0 or 1e0; -0 for a negative zero)
typeGeometry(ring, form, indent) ==
  LET token(x) == [sign |-> IF x.neg THEN "-" ELSE "", digits |-> x.mag, form |-> form]
      text == [indent |-> indent,
               ring |-> [i \in 1..Len(ring) |-> <<token(ring[i][1]), token(ring[i][2])>>]]
  IN  /\ saving.stage = "form"
      /\ text # saving.text
      /\ saving' = [saving EXCEPT !.text = text]
      /\ UNCHANGED <<storeVars, pageVars, modeVars, filterVars, layerVars, deps, dirty,
                     formVars, historyVars, loadVars, serverVars, facilityFields>>

\* handleSubmit of the form: finalGeometry is parsed from the text and sent
\* in the body
sendGeometry ==
  /\ saving.stage = "form"
  /\ saving' = [saving EXCEPT !.stage = "request",
                              !.submitted = Parse(saving.text),
                              !.text = Stringify(Parse(saving.text), 0)]
  /\ UNCHANGED <<storeVars, pageVars, modeVars, filterVars, layerVars, deps, dirty,
                 formVars, historyVars, loadVars, serverVars, facilityFields>>

\* POST: request.json(), and the insert writing the json column
insertGeometry ==
  /\ saving.stage = "request"
  /\ saving' = [saving EXCEPT !.stage = "column",
                              !.text = Stringify(Parse(saving.text), 0)]
  /\ UNCHANGED <<storeVars, pageVars, modeVars, filterVars, layerVars, deps, dirty,
                 formVars, historyVars, loadVars, serverVars, facilityFields>>

\* GET and the page's load: the column is read, json(rows) is sent and
\* response.json() gives the list
listGeometry ==
  /\ saving.stage = "column"
  /\ saving' = [saving EXCEPT !.stage = "listed",
                              !.listed = Parse(Stringify(Parse(saving.text), 0))]
  /\ UNCHANGED <<storeVars, pageVars, modeVars, filterVars, layerVars, deps, dirty,
                 formVars, historyVars, loadVars, serverVars, facilityFields>>

NextSaving ==
  \/ \E ring \in Rings, form \in {"plain", "fraction", "exponent"}, indent \in {0, 2} :
       typeGeometry(ring, form, indent)
  \/ sendGeometry
  \/ insertGeometry
  \/ listGeometry

\* a form just created for a polygon: editableGeometry =
\* JSON.stringify(geometry, null, 2)
InitSaving ==
  /\ PageMounted
  /\ districts = <<>>
  /\ parks = <<>>
  /\ facilities = <<>>
  /\ isAuthenticated
  /\ facilityFields = NoFacilityForm
  /\ \E geometry \in Rings :
       saving = [NotSaving EXCEPT !.stage = "form", !.text = Stringify(geometry, 2)]

SpecSaving == InitSaving /\ [][NextSaving]_vars

\* two rings are the same sequence of points (-0 and 0 are the same number)
SameRing(a, b) ==
  /\ Len(a) = Len(b)
  /\ \A i \in 1..Len(a) : \A k \in 1..2 :
       /\ a[i][k].mag = b[i][k].mag
       /\ a[i][k].mag # 0 => a[i][k].neg = b[i][k].neg

Next ==
  \/ NextModes \/ NextFilter \/ NextCreate \/ NextForms
  \/ NextLoad \/ NextServer \/ NextFields \/ NextFacilityForm \/ NextSaving

Spec == Init /\ [][Next]_vars
============================================================================
